---------------------------- MODULE Spec2Model ----------------------------
(***************************************************************************)
(* Model of the discovery engine of htb-network-discovery                  *)
(* (src/src/core/discovery/engine.py) together with the parts of the       *)
(* collector, the shell session and the session repository it drives.      *)
(*                                                                         *)
(* Spec: one behaviour is one invocation of                                *)
(* DiscoveryEngine.start_discovery on a freshly constructed engine: the    *)
(* main thread seeds the queue, runs the submit/wait loop of               *)
(* _process_discovery_queue over a pool of worker threads, performs the    *)
(* commit pass and updates the session record.                             *)
(*                                                                         *)
(* CollectorSpec: one behaviour is one call of                             *)
(* NetworkDiscoveryCollector.collect_from_device, command by command.      *)
(*                                                                         *)
(* StoreSpec: one behaviour is the commit pass and the session update of   *)
(* successive runs of discovery over the rows of one database.             *)
(***************************************************************************)
EXTENDS Integers, Sequences, FiniteSets, TLC

(***************************************************************************)
(* Bounds of the model.  max_depth and max_workers are configuration       *)
(* values; Init draws them from 1..MaxDepthLimit and 1..MaxWorkersLimit.   *)
(***************************************************************************)
MaxDepthLimit == 3

MaxWorkersLimit == 2

\* How many times discovery is run against one database.
MaxRuns == 2

\* How many store handles write the same natural key at once.
MaxHandles == 2

\* Python's None for the optional string fields.
NULL == "null"

(***************************************************************************)
(* The network under discovery.  A neighbour record is what                *)
(* NeighborInfo.to_dict() yields for one CDP/LLDP entry, reduced to the    *)
(* fields the engine reads while crawling.  capabilities is Optional:      *)
(* has_caps = FALSE stands for capabilities = None (the parser found no    *)
(* "Capabilities:" line).                                                  *)
(***************************************************************************)
Hosts == {"A", "B", "C", "D"}

IpOf == [h \in Hosts |-> CASE h = "A" -> "10.0.0.1"
                           [] h = "B" -> "10.0.0.2"
                           [] h = "C" -> "10.0.0.3"
                           [] h = "D" -> "10.0.0.4"]

Nb(h, caps) ==
    [remote_device |-> h, remote_ip |-> IpOf[h],
     has_caps |-> TRUE, capabilities |-> caps]

\* A neighbour whose entry carries neither an IP address nor capabilities.
NbBare(h) ==
    [remote_device |-> h, remote_ip |-> NULL,
     has_caps |-> FALSE, capabilities |-> <<>>]

\* S3 of the specification: A <-> B <-> C <-> A, D is a phone behind C.
NetCycle ==
    [h \in Hosts |->
        CASE h = "A" -> <<Nb("B", <<"Switch", "IGMP">>), Nb("C", <<"Switch">>)>>
          [] h = "B" -> <<Nb("A", <<"Switch">>), Nb("C", <<"Router">>)>>
          [] h = "C" -> <<Nb("B", <<"Switch">>), Nb("A", <<"Switch">>),
                          Nb("D", <<"Host", "Phone">>)>>
          [] h = "D" -> <<>>]

\* S2 of the specification: a chain A - B - C - D.
NetChain ==
    [h \in Hosts |->
        CASE h = "A" -> <<Nb("B", <<"Router">>)>>
          [] h = "B" -> <<Nb("A", <<"Router">>), Nb("C", <<"switch">>)>>
          [] h = "C" -> <<Nb("B", <<"router">>), Nb("D", <<"Switch">>)>>
          [] h = "D" -> <<Nb("C", <<"Switch">>)>>]

\* D is two hops from A (through C) and one hop from B.
NetDiamond ==
    [h \in Hosts |->
        CASE h = "A" -> <<Nb("C", <<"Switch">>)>>
          [] h = "B" -> <<Nb("D", <<"Switch">>)>>
          [] h = "C" -> <<Nb("A", <<"Switch">>), Nb("D", <<"Switch">>)>>
          [] h = "D" -> <<Nb("B", <<"Switch">>), Nb("C", <<"Switch">>)>>]

\* Capability spellings and a neighbour entry without capabilities.
NetCaps ==
    [h \in Hosts |->
        CASE h = "A" -> <<NbBare("B"), Nb("C", <<"Switch">>)>>
          [] h = "B" -> <<>>
          [] h = "C" -> <<Nb("A", <<"Switch">>), Nb("D", <<"SWITCH">>)>>
          [] h = "D" -> <<>>]

\* The crawls of the model: a network and config.seed_devices, a non-empty
\* list of DeviceConfig (hostname, ip).
Scenarios ==
    {[net |-> NetCycle, seeds |-> <<"A">>],
     [net |-> NetCycle, seeds |-> <<"A", "B">>],
     [net |-> NetChain, seeds |-> <<"A">>],
     [net |-> NetDiamond, seeds |-> <<"A", "B">>],
     [net |-> NetCaps, seeds |-> <<"A">>],
     [net |-> NetCaps, seeds |-> <<"A", "B", "C">>]}

(***************************************************************************)
(* State.                                                                  *)
(***************************************************************************)
VARIABLES
    net,                \* the network the seeds belong to
    seed_devices,       \* config.seed_devices (hostnames)
    max_depth,          \* DiscoveryEngine.max_depth
    max_workers,        \* DiscoveryEngine.max_workers
    pc,                 \* position of the main thread in start_discovery
    discovered_devices, \* DiscoveryEngine.discovered_devices (visited)
    discovery_queue,    \* DiscoveryEngine.discovery_queue (frontier)
    futures,            \* the futures list of _process_discovery_queue
    device_data,        \* DiscoveryEngine.device_data (results), in dict order
    errors,             \* DiscoveryEngine.errors
    submitted,          \* log of the executor.submit calls (hostname, depth)
    enqueued,           \* log of the discovery_queue.put calls
    outcome,            \* per hostname: what its collector met
    store_index,        \* commit pass: index of the next device_data item
    device_id_map,      \* commit pass: hostnames that got a device id
    session_dirty,      \* the shared SQLAlchemy session awaits a rollback
    store_faults,       \* number of faults the store has raised by itself
    discovery_session,  \* the DiscoverySession row
    \* One run of NetworkDiscoveryCollector.collect_from_device:
    command_fate,       \* what the device does with connect and each command
    collect_mac_tables, \* the argument of collect_all
    collector_pc,       \* position inside collect_from_device / collect_all
    issued,             \* the commands sent by execute_command, in order
    connected,          \* SSHClient._connected
    channel_open,       \* the device holds a shell session of this client
    disconnect_calls,   \* calls of ConnectHandler.disconnect
    status_data,        \* collect_interfaces: parsed "show interfaces status"
    device_info,        \* the DeviceInfo being filled by collect_all
    returned,           \* what collect_from_device returned
    \* The store and the runs of discovery against it:
    db,                 \* the tables: devices, interfaces, vlans, connections
    now,                \* datetime.utcnow()
    run,                \* how many times discovery has been started
    strict_datetime,    \* the backend binds only datetime objects (SQLite)
    interface_id_map,   \* commit pass: (hostname, name) keys with an id
    crawls,             \* device_data the first and the later crawls collect
    previous_db,        \* the tables as the previous run left them
    \* One use of validators.normalize_mac:
    mac_case,           \* how the argument was spelled (digits, case, ...)
    mac_address,        \* the argument, a string as a sequence of characters
    mac_pc,             \* idle, input, normalized or renormalized
    normalized,         \* what normalize_mac(mac_address) gave
    renormalized,       \* what normalize_mac of that value gave
    \* One TopologyBuilder: build_graph and then find_path:
    builder_pc,         \* idle, start, nodes, built or answered
    devices_read,       \* build_graph: the Device rows still to be added
    graph,              \* TopologyBuilder.graph
    path_query,         \* the source and target asked for
    path,               \* what find_path returned
    \* One call of DeviceRepository.delete:
    foreign_keys,       \* the backend enforces foreign keys
    deleted_id,         \* the id delete was called with
    delete_result,      \* none, true, false or raised
    \* Upserts on one natural key through several store handles:
    upsert_kind,        \* the table the key belongs to
    key_rows,           \* the rows of the table that carry the key
    handle_pc,          \* per handle: start, queried, done or raised
    handle_found        \* per handle: the id of the row its query found

collector_vars == <<command_fate, collect_mac_tables, collector_pc, issued,
                    connected, channel_open, disconnect_calls, status_data,
                    device_info, returned>>

engine_vars == <<net, seed_devices, max_depth, max_workers, pc,
                 discovered_devices, discovery_queue, futures, device_data,
                 errors, submitted, enqueued, outcome, store_index,
                 device_id_map, session_dirty, store_faults,
                 discovery_session>>

commit_vars == <<db, now, run, strict_datetime, interface_id_map,
                 crawls, previous_db>>

validator_vars == <<mac_case, mac_address, mac_pc, normalized, renormalized>>

builder_vars == <<builder_pc, devices_read, graph, path_query, path>>

delete_vars == <<foreign_keys, deleted_id, delete_result>>

upsert_vars == <<upsert_kind, key_rows, handle_pc, handle_found>>

tool_vars == <<validator_vars, builder_vars, delete_vars, upsert_vars>>

vars == <<engine_vars, collector_vars, commit_vars, tool_vars>>

config_vars == <<net, seed_devices, max_depth, max_workers>>

crawl_vars == <<discovered_devices, discovery_queue, futures, device_data,
                submitted, enqueued>>

store_vars == <<store_index, device_id_map, session_dirty, store_faults>>


(***************************************************************************)
(* Records.                                                                *)
(***************************************************************************)
\* DeviceConfig as the engine builds it (hostname, ip).
DeviceConfig(hostname, ip) == [hostname |-> hostname, ip |-> ip]

\* The DeviceInfo a collector returns, reduced to what the engine reads.
DeviceInfo(hostname, ip, neighbors) ==
    [hostname |-> hostname, ip_address |-> ip, neighbors |-> neighbors]

\* What _discover_device returns when collection failed: (None, depth).
NoDeviceInfo == DeviceInfo(NULL, NULL, <<>>)

\* The fresh DiscoverySession row before create_session has run.
NoSession ==
    [status |-> NULL, completed_at |-> NULL, devices_discovered |-> 0,
     interfaces_discovered |-> 0, connections_discovered |-> 0,
     errors |-> <<>>]

(***************************************************************************)
(* Outcomes of one collector run (NetworkDiscoveryCollector                *)
(* .collect_from_device), decided by the device and the network:           *)
(*   ok             the record carries the hostname "show version" printed *)
(*   ok_no_hostname "show version" printed no hostname: the record is      *)
(*                  named by the address the session was opened to         *)
(*   auth, timeout, transport, other                                       *)
(*                  SSHClient.connect caught that kind of exception        *)
(*   no_version     connected, but "show version" failed                   *)
(***************************************************************************)
ConnectErrors == {"auth", "timeout", "transport", "other"}

Outcomes == {"ok", "ok_no_hostname", "no_version"} \cup ConnectErrors

\* SSHClient.connect: a bare boolean; the kind of the failure is only logged.
connect(o) == o \notin ConnectErrors

\* DeviceCollector.collect_device_info: the hostname of the record, with the
\* fall-back to client.host.
collect_device_info_hostname(cfg, o) ==
    IF o = "ok_no_hostname" THEN cfg.ip ELSE cfg.hostname

\* collect_from_device: <<connected and collected, DeviceInfo>>.
collect_from_device(cfg, o) ==
    IF connect(o) /\ o # "no_version"
    THEN [ok |-> TRUE,
          info |-> DeviceInfo(collect_device_info_hostname(cfg, o), cfg.ip,
                              net[cfg.hostname])]
    ELSE [ok |-> FALSE, info |-> NoDeviceInfo]

\* The entry _discover_device appends to errors when the collector gave None.
CollectError(hostname) ==
    [device |-> hostname, error |-> "Failed to collect device information"]

\* The entry _store_discovery_data appends when a device's writes raised.
StorageError(hostname) ==
    [device |-> hostname, error |-> "Storage error"]

(***************************************************************************)
(* The command catalogue of the collector (collectors.py) and the values   *)
(* of the collector's variables while the engine is the one running.       *)
(***************************************************************************)
Commands ==
    {"show version", "show interfaces status", "show interfaces trunk",
     "show cdp neighbors detail", "show lldp neighbors detail",
     "show mac address-table", "show vlan brief"}


\* The DeviceInfo of collect_all before collect_device_info has returned.
EmptyDeviceInfo ==
    [present |-> FALSE, hostname |-> NULL, interfaces |-> <<>>,
     neighbors |-> <<>>, mac_table |-> <<>>, vlans |-> <<>>]

\* The store before the first run.
EmptyDb ==
    [devices |-> {}, interfaces |-> {}, vlans |-> {}, mac_entries |-> {},
     connections |-> {}]

\* The values of the store's variables while the rows are not looked at.
CommitIdle ==
    /\ db = EmptyDb
    /\ now = 0
    /\ run = 1
    /\ strict_datetime = FALSE
    /\ interface_id_map = {}
    /\ crawls = [first |-> <<>>, later |-> <<>>]
    /\ previous_db = EmptyDb

\* The values of the collector's variables while no collector runs.
CollectorIdle ==
    /\ command_fate = [c \in Commands \cup {"connect"} |-> "data"]
    /\ collect_mac_tables = TRUE
    /\ collector_pc = "idle"
    /\ issued = <<>>
    /\ connected = FALSE
    /\ channel_open = FALSE
    /\ disconnect_calls = 0
    /\ status_data = <<>>
    /\ device_info = EmptyDeviceInfo
    /\ returned = "pending"

\* What normalize_mac gives: the error it raised, or NULL and the value.
MacResult(raised, value) == [raised |-> raised, value |-> value]

\* The values of the validator's variables while it is not called.
ValidatorIdle ==
    /\ mac_case = NULL
    /\ mac_address = <<>>
    /\ mac_pc = "idle"
    /\ normalized = MacResult(NULL, <<>>)
    /\ renormalized = MacResult(NULL, <<>>)

\* The values of the builder's variables while no graph is being built.
BuilderIdle ==
    /\ builder_pc = "idle"
    /\ devices_read = <<>>
    /\ graph = [nodes |-> {}, edges |-> {}]
    /\ path_query = [source |-> NULL, target |-> NULL]
    /\ path = NULL

\* The values of the variables of the store handles while none writes.
UpsertIdle ==
    /\ upsert_kind = "device"
    /\ key_rows = {}
    /\ handle_pc = [h \in 1..MaxHandles |-> "idle"]
    /\ handle_found = [h \in 1..MaxHandles |-> 0]

\* The values of the variables of delete while it is not called.
DeleteIdle ==
    /\ foreign_keys = TRUE
    /\ deleted_id = 0
    /\ delete_result = "none"

\* The values of the variables of the library functions while none runs.
ToolIdle == ValidatorIdle /\ BuilderIdle /\ DeleteIdle /\ UpsertIdle

(***************************************************************************)
(* Init: the engine as __init__ leaves it, for some configuration.         *)
(***************************************************************************)
Init ==
    /\ \E scenario \in Scenarios :
          /\ net = scenario.net
          /\ seed_devices = scenario.seeds
    /\ max_depth \in 1..MaxDepthLimit
    /\ max_workers \in 1..MaxWorkersLimit
    /\ pc = "start"
    /\ discovered_devices = {}
    /\ discovery_queue = <<>>
    /\ futures = {}
    /\ device_data = <<>>
    /\ errors = <<>>
    /\ submitted = <<>>
    /\ enqueued = <<>>
    /\ outcome = [h \in Hosts |-> "pending"]
    /\ store_index = 1
    /\ device_id_map = {}
    /\ session_dirty = FALSE
    /\ store_faults = 0
    /\ discovery_session = NoSession
    /\ CollectorIdle
    /\ CommitIdle
    /\ ToolIdle

(***************************************************************************)
(* start_discovery, lines 81-94: create the session row, seed the queue.   *)
(***************************************************************************)
RECURSIVE SeedItems(_)
SeedItems(seeds) ==
    IF seeds = <<>> THEN <<>>
    ELSE <<[cfg |-> DeviceConfig(Head(seeds), IpOf[Head(seeds)]), depth |-> 0]>>
         \o SeedItems(Tail(seeds))

\* The log entries of a run of discovery_queue.put calls.
PutLog(items, is_seed) ==
    [i \in 1..Len(items) |->
        [hostname |-> items[i].cfg.hostname, depth |-> items[i].depth,
         seed |-> is_seed]]

StartDiscovery ==
    /\ pc = "start"
    /\ discovery_session' = [NoSession EXCEPT !.status = "running"]
    /\ discovery_queue' = SeedItems(seed_devices)
    /\ enqueued' = PutLog(SeedItems(seed_devices), TRUE)
    /\ pc' = "crawl"
    /\ UNCHANGED <<tool_vars, collector_vars, commit_vars, config_vars,
                   discovered_devices, futures, device_data,
                   errors, submitted, outcome, store_vars>>

(***************************************************************************)
(* _process_discovery_queue, the inner loop (lines 133-154).               *)
(***************************************************************************)
\* Mutant of CanSubmit: the pool is allowed one future too many.
CanSubmitOneMore ==
    discovery_queue # <<>> /\ Cardinality(futures) <= max_workers

\* Mutant of CanSubmit: the pool is cut one slot short, so a pool of one
\* never takes an item.
CanSubmitOneLess ==
    discovery_queue # <<>> /\ Cardinality(futures) < max_workers - 1

\* Line 133: the inner loop runs while this holds.
CanSubmit ==
    discovery_queue # <<>> /\ Cardinality(futures) < max_workers

\* Mutant of AlreadyDiscovered: the test looks at the collected results
\* instead of the visited set.
AlreadyCollected(item) ==
    \E i \in 1..Len(device_data) : device_data[i].hostname = item.cfg.hostname

\* Line 137: skip if already discovered.
AlreadyDiscovered(item) == item.cfg.hostname \in discovered_devices

\* Line 141: skip if max depth reached.
DepthReached(item) == item.depth >= max_depth

\* One pass through the body of the inner loop.
SubmitOrSkip ==
    /\ pc = "crawl"
    /\ CanSubmit
    /\ LET item == Head(discovery_queue) IN
        /\ discovery_queue' = Tail(discovery_queue)
        /\ IF AlreadyDiscovered(item) \/ DepthReached(item)
           THEN UNCHANGED <<discovered_devices, futures, submitted>>
           ELSE /\ discovered_devices' =
                      discovered_devices \cup {item.cfg.hostname}
                /\ futures' = futures \cup
                      {[id |-> Len(submitted) + 1, cfg |-> item.cfg,
                        depth |-> item.depth, done |-> FALSE, ok |-> FALSE,
                        info |-> NoDeviceInfo]}
                /\ submitted' = Append(submitted,
                      [hostname |-> item.cfg.hostname, depth |-> item.depth])
    /\ UNCHANGED <<tool_vars, collector_vars, commit_vars, config_vars,
                   pc, device_data, errors, enqueued, outcome,
                   store_vars, discovery_session>>

(***************************************************************************)
(* _discover_device (lines 181-222), run by a pool thread.  The collector  *)
(* never raises (collect_from_device catches everything), so the handler   *)
(* of lines 219-222 is not reached.                                        *)
(***************************************************************************)
DiscoverDevice(f, o) ==
    /\ f \in futures
    /\ ~f.done
    /\ LET r == collect_from_device(f.cfg, o) IN
        /\ futures' = (futures \ {f}) \cup
              {[f EXCEPT !.done = TRUE, !.ok = r.ok, !.info = r.info]}
        /\ errors' = IF r.ok THEN errors
                     ELSE Append(errors, CollectError(f.cfg.hostname))
    /\ outcome' = [outcome EXCEPT ![f.cfg.hostname] = o]
    /\ UNCHANGED <<tool_vars, collector_vars, commit_vars, config_vars,
                   pc, discovered_devices, discovery_queue,
                   device_data, submitted, enqueued, store_vars,
                   discovery_session>>

Worker == \E f \in futures : \E o \in Outcomes : DiscoverDevice(f, o)


(***************************************************************************)
(* _process_discovered_device (lines 224-270), run by the main thread.     *)
(***************************************************************************)
\* Lines 250-253: the test that keeps a neighbour for the queue.
IsSwitchOrRouter(capabilities) ==
    \E i \in 1..Len(capabilities) :
        capabilities[i] \in {"Switch", "Router", "switch", "router"}

\* Line 245: the neighbour is dropped without looking at its capabilities.
SkipNeighbor(neighbor) ==
    \/ neighbor.remote_device = NULL
    \/ neighbor.remote_device \in discovered_devices

\* Lines 260-264: the DeviceConfig of a neighbour; ip falls back to the name.
NeighborConfig(neighbor) ==
    DeviceConfig(neighbor.remote_device,
                 IF neighbor.remote_ip = NULL THEN neighbor.remote_device
                 ELSE neighbor.remote_ip)

\* Mutant of MayQueueNeighbors: the limit is compared without the "- 1".
MayQueueNeighborsOffByOne(depth) == depth < max_depth

\* Line 240: neighbours are queued only from a device above the last level.
MayQueueNeighbors(depth) == depth < max_depth - 1

\* Lines 241-270: the items the loop over device_info.neighbors puts on the
\* queue.  Iterating capabilities = None raises TypeError, which leaves the
\* loop (and the method) with the items queued so far.
RECURSIVE QueuedNeighbors(_, _)
QueuedNeighbors(neighbors, depth) ==
    IF neighbors = <<>> THEN <<>>
    ELSE LET neighbor == Head(neighbors) IN
         IF SkipNeighbor(neighbor)
         THEN QueuedNeighbors(Tail(neighbors), depth)
         ELSE IF ~neighbor.has_caps
         THEN <<>>
         ELSE IF ~IsSwitchOrRouter(neighbor.capabilities)
         THEN QueuedNeighbors(Tail(neighbors), depth)
         ELSE <<[cfg |-> NeighborConfig(neighbor), depth |-> depth + 1]>>
              \o QueuedNeighbors(Tail(neighbors), depth)

\* Line 233: self.device_data[device_info.hostname] = device_info.  A dict
\* keeps the position of a key that is assigned again.
KeyIndex(data, hostname) ==
    {i \in 1..Len(data) : data[i].hostname = hostname}

StoreDeviceData(data, info) ==
    IF KeyIndex(data, info.hostname) = {}
    THEN Append(data, info)
    ELSE [i \in 1..Len(data) |->
            IF i \in KeyIndex(data, info.hostname) THEN info ELSE data[i]]

\* The items _process_discovered_device queues for a completed future.
NewItems(f) ==
    IF f.ok /\ MayQueueNeighbors(f.depth)
    THEN QueuedNeighbors(f.info.neighbors, f.depth)
    ELSE <<>>

(***************************************************************************)
(* _process_discovery_queue, lines 157-167: wait for one future, take it   *)
(* off the list and process its result.                                    *)
(***************************************************************************)
\* Line 157 is reached when the inner loop has ended and futures is not empty.
MustWait == ~CanSubmit /\ futures # {}

\* _wait_for_completion: the futures that stay pending.
Pending(f) == futures \ {f}

WaitAndProcess ==
    /\ pc = "crawl"
    /\ MustWait
    /\ \E f \in futures :
        /\ f.done
        /\ futures' = Pending(f)
        /\ device_data' = IF f.ok THEN StoreDeviceData(device_data, f.info)
                          ELSE device_data
        /\ discovery_queue' = discovery_queue \o NewItems(f)
        /\ enqueued' = enqueued \o PutLog(NewItems(f), FALSE)
    /\ UNCHANGED <<tool_vars, collector_vars, commit_vars, config_vars,
                   pc, discovered_devices, errors, submitted,
                   outcome, store_vars, discovery_session>>

\* Mutant of CrawlDone: the loop ends as soon as the queue is empty.
CrawlDoneWhenQueueEmpty == discovery_queue = <<>>

\* Line 131: the outer loop ends; the pool is shut down with no thread busy.
CrawlDone == discovery_queue = <<>> /\ futures = {}

FinishCrawl ==
    /\ pc = "crawl"
    /\ CrawlDone
    /\ pc' = "store_devices"
    /\ UNCHANGED <<tool_vars, collector_vars, commit_vars, config_vars,
                   crawl_vars, errors, outcome, store_vars,
                   discovery_session>>


(***************************************************************************)
(* _store_discovery_data, first loop (lines 280-315): the writes of one    *)
(* collected device, inside one try block.  Every repository commits on    *)
(* the one SQLAlchemy session the engine created (lines 54-62).  When a    *)
(* commit fails in its flush (an IntegrityError on devices.serial_number,  *)
(* say) the session refuses every later query and commit until rollback()  *)
(* is called, and no code of the repository calls it.                      *)
(*   written       every write of the device went through                  *)
(*   device_fault  the device upsert raised (line 283)                     *)
(*   later_fault   the device row was written and mapped (line 284), then  *)
(*                 an interface, VLAN or MAC write raised                  *)
(***************************************************************************)
StoreResults == {"written", "device_fault", "later_fault"}

\* The result of the try block given the state of the session.
StoreResult(injected) == IF session_dirty THEN "device_fault" ELSE injected

StoreDevice(injected) ==
    /\ pc = "store_devices"
    /\ store_index <= Len(device_data)
    /\ LET hostname == device_data[store_index].hostname
           result == StoreResult(injected)
       IN
        /\ device_id_map' = IF result = "device_fault" THEN device_id_map
                            ELSE device_id_map \cup {hostname}
        /\ errors' = IF result = "written" THEN errors
                     ELSE Append(errors, StorageError(hostname))
        /\ session_dirty' = (session_dirty \/ result # "written")
        /\ store_faults' = IF ~session_dirty /\ result # "written"
                           THEN store_faults + 1 ELSE store_faults
    /\ store_index' = store_index + 1
    /\ UNCHANGED <<tool_vars, collector_vars, commit_vars, config_vars,
                   pc, crawl_vars, outcome, discovery_session>>

\* Lines 317-363: the connection loop swallows its own exceptions and
\* appends nothing to errors; its rows are not part of this state.
FinishStore ==
    /\ pc = "store_devices"
    /\ store_index > Len(device_data)
    /\ pc' = "update"
    /\ UNCHANGED <<tool_vars, collector_vars, commit_vars, config_vars,
                   crawl_vars, errors, outcome, store_vars,
                   discovery_session>>

(***************************************************************************)
(* DiscoverySessionRepository.update_session (repository.py 387-413) as    *)
(* start_discovery calls it.                                               *)
(***************************************************************************)
\* datetime.utcnow() as stored in completed_at.
UTCNOW == "utcnow"

\* An argument of update_session left at its default, None.
NotPassed == -1

\* Lines 399-410: the fields update_session assigns.
update_session(row, status, devices_count, interfaces_count, connections_count, error_list) ==
    [row EXCEPT
        !.status = status,
        !.completed_at =
            IF status \in {"completed", "failed"} THEN UTCNOW ELSE @,
        !.devices_discovered =
            IF devices_count # NotPassed THEN devices_count ELSE @,
        !.interfaces_discovered =
            IF interfaces_count # NotPassed THEN interfaces_count ELSE @,
        !.connections_discovered =
            IF connections_count # NotPassed THEN connections_count ELSE @,
        !.errors = IF error_list # <<>> THEN error_list ELSE @]

\* Mutant of SuccessStatus: a crawl that recorded errors is marked failed.
SuccessStatusUnlessErrors(error_list) ==
    IF error_list # <<>> THEN "failed" ELSE "completed"

\* Line 106: the status start_discovery writes after the commit pass,
\* whatever the errors list holds.
SuccessStatus(error_list) == "completed"

\* Lines 104-117: the update to "completed"; query_fault is the SELECT of
\* update_session raising while the session itself stays usable.
UpdateCompleted(query_fault) ==
    /\ pc = "update"
    /\ IF session_dirty \/ query_fault
       THEN /\ pc' = "except"
            /\ UNCHANGED discovery_session
       ELSE /\ pc' = "done"
            /\ discovery_session' =
                  update_session(discovery_session, SuccessStatus(errors),
                                 Len(device_data), NotPassed, NotPassed,
                                 errors)
    /\ store_faults' = IF ~session_dirty /\ query_fault
                       THEN store_faults + 1 ELSE store_faults
    /\ UNCHANGED <<tool_vars, collector_vars, commit_vars, config_vars,
                   crawl_vars, errors, outcome, store_index,
                   device_id_map, session_dirty>>

\* Lines 119-124: the handler updates to "failed" and re-raises.  On a
\* session that awaits a rollback the update itself raises.
HandleException ==
    /\ pc = "except"
    /\ discovery_session' =
          IF session_dirty THEN discovery_session
          ELSE update_session(discovery_session, "failed", NotPassed,
                              NotPassed, NotPassed,
                              <<[error |-> "str(e)"]>>)
    /\ pc' = "raised"
    /\ UNCHANGED <<tool_vars, collector_vars, commit_vars, config_vars,
                   crawl_vars, errors, outcome, store_vars>>

(***************************************************************************)
(* The specification.                                                      *)
(***************************************************************************)
MainThread ==
    \/ StartDiscovery
    \/ SubmitOrSkip
    \/ WaitAndProcess
    \/ FinishCrawl
    \/ \E injected \in StoreResults : StoreDevice(injected)
    \/ FinishStore
    \/ \E query_fault \in BOOLEAN : UpdateCompleted(query_fault)
    \/ HandleException

Next == MainThread \/ Worker

Spec == Init /\ [][Next]_vars

\* The main thread keeps running and every collector call returns.
FairSpec == Spec /\ WF_vars(MainThread) /\ WF_vars(Worker)

\* start_discovery has returned or raised.
Terminated == pc \in {"done", "raised"}

(***************************************************************************)
(* The collector: one run of NetworkDiscoveryCollector.collect_from_device *)
(* (collectors.py 251-278) over one shell session, command by command.     *)
(* command_fate says what the device does with the session request and     *)
(* with each command of the catalogue:                                     *)
(*   data     the command returns output that parses into entries          *)
(*   empty    the command returns output that parses into nothing          *)
(*   raises   execute_command raises (timeout, closed channel, ...)        *)
(*   partial  neighbour commands only: the first entry parses into a       *)
(*            NeighborInfo, the second carries a "Device ID:" line but no  *)
(*            "Interface:" or "Port ID" line, so the NeighborInfo          *)
(*            constructor raises TypeError inside the try block (lines     *)
(*            112-114)                                                     *)
(***************************************************************************)
\* What the device may do with each command.
Fates(command) ==
    CASE command = "show version" -> {"data", "empty", "raises"}
      [] command = "show interfaces status" -> {"data", "empty", "raises"}
      [] command = "show interfaces trunk" -> {"data", "raises"}
      [] command = "show cdp neighbors detail" ->
            {"data", "partial", "empty", "raises"}
      [] command = "show lldp neighbors detail" -> {"data", "empty", "raises"}
      [] command = "show mac address-table" -> {"data", "raises"}
      [] command = "show vlan brief" -> {"data", "raises"}

\* connection_params["host"] of the modelled run and the name the device
\* prints in "show version".
CollectorHost == "10.0.0.9"

CollectorHostname == "sw9"

\* The values of the engine's variables while no engine runs.
EngineIdle ==
    /\ net = NetCycle
    /\ seed_devices = <<"A">>
    /\ max_depth = 1
    /\ max_workers = 1
    /\ pc = "idle"
    /\ discovered_devices = {}
    /\ discovery_queue = <<>>
    /\ futures = {}
    /\ device_data = <<>>
    /\ errors = <<>>
    /\ submitted = <<>>
    /\ enqueued = <<>>
    /\ outcome = [h \in Hosts |-> "pending"]
    /\ store_index = 1
    /\ device_id_map = {}
    /\ session_dirty = FALSE
    /\ store_faults = 0
    /\ discovery_session = NoSession

\* A collector about to run against some device.
CollectorInit ==
    /\ EngineIdle
    /\ CommitIdle
    /\ ToolIdle
    /\ command_fate \in
          {f \in [Commands \cup {"connect"} ->
                    {"data", "partial", "empty", "raises"} \cup ConnectErrors] :
              /\ f["connect"] \in {"data"} \cup ConnectErrors
              /\ \A c \in Commands : f[c] \in Fates(c)}
    /\ collect_mac_tables \in BOOLEAN
    /\ collector_pc = "enter"
    /\ issued = <<>>
    /\ connected = FALSE
    /\ channel_open = FALSE
    /\ disconnect_calls = 0
    /\ status_data = <<>>
    /\ device_info = EmptyDeviceInfo
    /\ returned = "pending"

\* SSHClient.execute_command (ssh_client.py 106-135): the command is sent on
\* the open connection; the log of commands sent.
execute_command(command) == Append(issued, command)

\* Lines 264-269: __enter__ calls connect(); without a connection the
\* with-block returns None at once.
CollectorEnter ==
    /\ collector_pc = "enter"
    /\ connected' = connect(command_fate["connect"])
    /\ channel_open' = connect(command_fate["connect"])
    /\ collector_pc' = IF connect(command_fate["connect"])
                       THEN "collect_device_info" ELSE "exit"
    /\ UNCHANGED <<tool_vars, engine_vars, commit_vars,
                   command_fate, collect_mac_tables, issued,
                   disconnect_calls, status_data, device_info, returned>>

\* collect_device_info (lines 25-56), called at line 209; collect_all
\* returns None at line 211 when it gave None.
CollectDeviceInfo ==
    /\ collector_pc = "collect_device_info"
    /\ issued' = execute_command("show version")
    /\ IF command_fate["show version"] = "raises"
       THEN /\ collector_pc' = "exit"
            /\ UNCHANGED device_info
       ELSE /\ collector_pc' = "interfaces_status"
            /\ device_info' =
                  [EmptyDeviceInfo EXCEPT
                      !.present = TRUE,
                      !.hostname =
                          IF command_fate["show version"] = "data"
                          THEN CollectorHostname ELSE CollectorHost]
    /\ UNCHANGED <<tool_vars, engine_vars, commit_vars,
                   command_fate, collect_mac_tables, connected,
                   channel_open, disconnect_calls, status_data, returned>>

\* What parse_interfaces_status gives for the modelled device.
StatusData == <<[name |-> "Gi0/1", is_trunk |-> FALSE],
                [name |-> "Gi0/2", is_trunk |-> FALSE]>>

\* What parse_interfaces_trunk gives for the modelled device.
TrunkData == {"Gi0/2"}

\* collect_interfaces, lines 68-70: "show interfaces status".  An exception
\* leaves the try block: the method returns the empty list of line 65.
CollectInterfacesStatus ==
    /\ collector_pc = "interfaces_status"
    /\ issued' = execute_command("show interfaces status")
    /\ IF command_fate["show interfaces status"] = "raises"
       THEN /\ collector_pc' = "cdp"
            /\ UNCHANGED status_data
       ELSE /\ collector_pc' = "interfaces_trunk"
            /\ status_data' =
                  IF command_fate["show interfaces status"] = "data"
                  THEN StatusData ELSE <<>>
    /\ UNCHANGED <<tool_vars, engine_vars, commit_vars,
                   command_fate, collect_mac_tables, connected,
                   channel_open, disconnect_calls, device_info, returned>>

\* Lines 77-87: the interfaces built from status_data and trunk_data.
CombineInterfaces(status, trunk) ==
    [i \in 1..Len(status) |->
        [status[i] EXCEPT !.is_trunk = @ \/ status[i].name \in trunk]]

\* collect_interfaces, lines 72-96: "show interfaces trunk" and the loop that
\* builds the list.  The list is filled only after both commands returned.
CollectInterfacesTrunk ==
    /\ collector_pc = "interfaces_trunk"
    /\ issued' = execute_command("show interfaces trunk")
    /\ device_info' =
          [device_info EXCEPT !.interfaces =
              IF command_fate["show interfaces trunk"] = "raises"
              THEN <<>>
              ELSE CombineInterfaces(status_data, TrunkData)]
    /\ collector_pc' = "cdp"
    /\ UNCHANGED <<tool_vars, engine_vars, commit_vars,
                   command_fate, collect_mac_tables, connected,
                   channel_open, disconnect_calls, status_data, returned>>

\* The NeighborInfo list a neighbour command yields; the parser of each
\* command stamps its protocol (parsers.py 146 and 220).
NeighborsFrom(protocol, fate) ==
    CASE fate = "data" ->
            <<[remote_device |-> "sw1", protocol |-> protocol],
              [remote_device |-> "sw2", protocol |-> protocol]>>
      [] fate = "partial" ->
            <<[remote_device |-> "sw1", protocol |-> protocol]>>
      [] OTHER -> <<>>

\* Line 124: "if not neighbors".
TryLldp(neighbors) == neighbors = <<>>

\* collect_neighbors, lines 107-121: the CDP attempt.
CollectCdp ==
    /\ collector_pc = "cdp"
    /\ issued' = execute_command("show cdp neighbors detail")
    /\ LET neighbors ==
              NeighborsFrom("cdp", command_fate["show cdp neighbors detail"])
       IN
        /\ device_info' = [device_info EXCEPT !.neighbors = neighbors]
        /\ collector_pc' = IF TryLldp(neighbors) THEN "lldp" ELSE "to_dict"
    /\ UNCHANGED <<tool_vars, engine_vars, commit_vars,
                   command_fate, collect_mac_tables, connected,
                   channel_open, disconnect_calls, status_data, returned>>

\* collect_neighbors, lines 124-142: the LLDP attempt.
CollectLldp ==
    /\ collector_pc = "lldp"
    /\ issued' = execute_command("show lldp neighbors detail")
    /\ device_info' =
          [device_info EXCEPT !.neighbors =
              @ \o NeighborsFrom("lldp",
                                 command_fate["show lldp neighbors detail"])]
    /\ collector_pc' = "to_dict"
    /\ UNCHANGED <<tool_vars, engine_vars, commit_vars,
                   command_fate, collect_mac_tables, connected,
                   channel_open, disconnect_calls, status_data, returned>>

\* collect_all, lines 218-221, outside every try block of the collector: an
\* exception here (escapes = TRUE) leaves collect_all and the with-block and
\* is caught at line 274.
NeighborsToDict(escapes) ==
    /\ collector_pc = "to_dict"
    /\ collector_pc' = IF escapes THEN "exit_raised"
                       ELSE IF collect_mac_tables THEN "mac_table"
                       ELSE "vlans"
    /\ UNCHANGED <<tool_vars, engine_vars, commit_vars,
                   command_fate, collect_mac_tables, issued,
                   connected, channel_open, disconnect_calls, status_data,
                   device_info, returned>>

\* collect_mac_table (lines 144-170), called at line 222.
CollectMacTable ==
    /\ collector_pc = "mac_table"
    /\ issued' = execute_command("show mac address-table")
    /\ device_info' =
          [device_info EXCEPT !.mac_table =
              IF command_fate["show mac address-table"] = "data"
              THEN <<"0050.7966.6801">> ELSE <<>>]
    /\ collector_pc' = "vlans"
    /\ UNCHANGED <<tool_vars, engine_vars, commit_vars,
                   command_fate, collect_mac_tables, connected,
                   channel_open, disconnect_calls, status_data, returned>>

\* collect_vlans (lines 172-194), called at line 226; collect_all returns
\* the record at line 236.
CollectVlans ==
    /\ collector_pc = "vlans"
    /\ issued' = execute_command("show vlan brief")
    /\ device_info' =
          [device_info EXCEPT !.vlans =
              IF command_fate["show vlan brief"] = "data"
              THEN <<10, 20>> ELSE <<>>]
    /\ collector_pc' = "exit"
    /\ UNCHANGED <<tool_vars, engine_vars, commit_vars,
                   command_fate, collect_mac_tables, connected,
                   channel_open, disconnect_calls, status_data, returned>>

\* Mutant of NeedsDisconnect: the connection is closed only when a record
\* is about to be returned.
NeedsDisconnectOnSuccess == connected /\ device_info.present

\* SSHClient.disconnect, line 97: "if self.connection and self._connected".
NeedsDisconnect == connected

\* SSHClient.__exit__ -> disconnect (ssh_client.py 191-193, 95-104), reached
\* on every way out of the with-block, then the return of lines 269, 272 or
\* 278.  ConnectHandler.disconnect closes the channel; an exception it
\* raises is logged (line 102) and _connected is cleared all the same.
CollectorExit ==
    /\ collector_pc \in {"exit", "exit_raised"}
    /\ IF NeedsDisconnect
       THEN /\ disconnect_calls' = disconnect_calls + 1
            /\ channel_open' = FALSE
            /\ connected' = FALSE
       ELSE UNCHANGED <<disconnect_calls, channel_open, connected>>
    /\ returned' = IF collector_pc = "exit" /\ device_info.present
                   THEN "record" ELSE "none"
    /\ collector_pc' = "returned"
    /\ UNCHANGED <<tool_vars, engine_vars, commit_vars,
                   command_fate, collect_mac_tables, issued,
                   status_data, device_info>>

CollectorNext ==
    \/ CollectorEnter
    \/ CollectDeviceInfo
    \/ CollectInterfacesStatus
    \/ CollectInterfacesTrunk
    \/ CollectCdp
    \/ CollectLldp
    \/ \E escapes \in BOOLEAN : NeighborsToDict(escapes)
    \/ CollectMacTable
    \/ CollectVlans
    \/ CollectorExit

CollectorSpec == CollectorInit /\ [][CollectorNext]_vars



(***************************************************************************)
(* The commit pass in detail: _store_discovery_data (engine.py 272-363)    *)
(* over the rows of the store, followed by the session update, for a       *)
(* device_data the crawl has left.  A behaviour runs discovery MaxRuns     *)
(* times against one database; every run is a fresh engine with a fresh    *)
(* SQLAlchemy session (engine.py 52-62).                                   *)
(*                                                                         *)
(* The store rejects a write in two cases, both while the commit flushes:  *)
(*   - devices.serial_number is unique (schema.py 35): IntegrityError;     *)
(*   - DeviceInfo.to_dict() gives last_discovered as an ISO string         *)
(*     (device.py 35) and the Device constructor hands it to a DateTime    *)
(*     column (schema.py 37): on SQLite, the default backend               *)
(*     (config.py 180), the INSERT raises StatementError; the update path  *)
(*     overwrites the string with a datetime (repository.py 43).           *)
(***************************************************************************)
\* What NeighborInfo.to_dict() gives the commit pass.
Link(local_interface, remote_device, remote_interface, protocol) ==
    [local_interface |-> local_interface, remote_device |-> remote_device,
     remote_interface |-> remote_interface, protocol |-> protocol]

\* What MacEntry.to_dict() gives the commit pass (device.py 109-116).
MacData(address, vlan_id, interface) ==
    [mac_address |-> address, vlan_id |-> vlan_id,
     interface |-> interface, type |-> "dynamic"]

\* A collected DeviceInfo with the fields the commit pass reads.
FullDeviceInfo(hostname, serial_number, interfaces, vlans, neighbors) ==
    [hostname |-> hostname, ip_address |-> IpOf[hostname],
     serial_number |-> serial_number, last_discovered |-> 0,
     interfaces |-> interfaces, vlans |-> vlans, mac_table |-> <<>>,
     neighbors |-> neighbors]

\* Three switches: A - B on Gi0/1, B - C on Gi0/2; C reports its port to B
\* as Gi0/1 and B's port by a name B does not have.  A has learned one MAC
\* address on Gi0/2 and one on a port it does not list; B has learned the
\* first one on Gi0/1.
SwitchA ==
    [FullDeviceInfo("A", "FOC1", <<"Gi0/1", "Gi0/2">>, <<10>>,
                    <<Link("Gi0/1", "B", "Gi0/1", "cdp"),
                      Link("Gi0/2", "D", "Gi0/1", "cdp")>>)
     EXCEPT !.mac_table = <<MacData("00:50:79:66:68:01", 10, "Gi0/2"),
                            MacData("00:50:79:66:68:02", 10, "Po1")>>]

SwitchB ==
    [FullDeviceInfo("B", "FOC2", <<"Gi0/1", "Gi0/2">>, <<10, 20>>,
                    <<Link("Gi0/1", "A", "Gi0/1", "cdp"),
                      Link("Gi0/2", "C", "Gi0/1", "cdp"),
                      Link("Gi0/3", "C", "Gi0/2", "cdp")>>)
     EXCEPT !.mac_table = <<MacData("00:50:79:66:68:01", 10, "Gi0/1")>>]

SwitchC ==
    FullDeviceInfo("C", NULL, <<"Gi0/1">>, <<>>,
                   <<Link("Gi0/1", "B", "GigabitEthernet0/2", "cdp")>>)

\* B as a member of the same chassis as A: it prints A's serial number.
SwitchBSameSerial == [SwitchB EXCEPT !.serial_number = "FOC1"]

\* C after CDP was switched off: it is seen over LLDP, with B's port named.
SwitchCLldp ==
    [SwitchC EXCEPT !.neighbors = <<Link("Gi0/1", "B", "Gi0/2", "lldp")>>]

\* The crawls of the model: device_data of the first run and of the later
\* runs, in dict order (the order in which the collectors completed).
Rediscoveries ==
    {[first |-> <<SwitchA, SwitchB, SwitchC>>,
      later |-> <<SwitchA, SwitchB, SwitchC>>],
     [first |-> <<SwitchA, SwitchB, SwitchC>>,
      later |-> <<SwitchC, SwitchA, SwitchB>>],
     [first |-> <<SwitchA, SwitchB, SwitchC>>,
      later |-> <<SwitchA, SwitchB, SwitchCLldp>>],
     [first |-> <<SwitchA, SwitchB, SwitchCLldp>>,
      later |-> <<SwitchA, SwitchB, SwitchC>>],
     [first |-> <<SwitchA, SwitchB>>,
      later |-> <<SwitchA, SwitchB, SwitchC>>],
     [first |-> <<SwitchA, SwitchBSameSerial, SwitchC>>,
      later |-> <<SwitchA, SwitchBSameSerial, SwitchC>>],
     [first |-> <<SwitchA, SwitchBSameSerial, SwitchC>>,
      later |-> <<SwitchA, SwitchC, SwitchBSameSerial>>]}

\* DeviceInfo.last_discovered (device.py 19): the time of collection.
Stamp(data, t) == [i \in 1..Len(data) |-> [data[i] EXCEPT !.last_discovered = t]]

\* A NULL foreign key.
NoId == 0

\* The id an autoincrement primary key gives the next row of a table: one
\* more than the ids the table holds.
NextId(table) ==
    IF table = {} THEN 1
    ELSE 1 + (CHOOSE id \in {row.id : row \in table} :
                 \A row \in table : row.id <= id)

(***************************************************************************)
(* DeviceRepository.create_or_update (repository.py 25-51).                *)
(***************************************************************************)
\* Line 36: query(Device).filter_by(hostname=hostname).
DeviceByHostname(d, hostname) == {row \in d.devices : row.hostname = hostname}

\* The id of the row create_or_update returned for hostname.
DeviceId(d, hostname) == (CHOOSE row \in DeviceByHostname(d, hostname) : TRUE).id

\* The flush of line 50 fails: unique serial_number, or an ISO string bound
\* to a DateTime column by the INSERT on a backend that refuses it.
DeviceFlushFails(d, info) ==
    \/ /\ info.serial_number # NULL
       /\ \E row \in d.devices :
             /\ row.hostname # info.hostname
             /\ row.serial_number = info.serial_number
    \/ strict_datetime /\ DeviceByHostname(d, info.hostname) = {}

\* Lines 38-48: the row after the update, or the new row.
UpsertDevice(d, info, t) ==
    IF DeviceByHostname(d, info.hostname) # {}
    THEN [d EXCEPT !.devices =
            {IF row.hostname = info.hostname
             THEN [row EXCEPT !.ip_address = info.ip_address,
                              !.serial_number = info.serial_number,
                              !.last_discovered = t,
                              !.updated_at = t]
             ELSE row : row \in d.devices}]
    ELSE [d EXCEPT !.devices = @ \cup
            {[id |-> NextId(d.devices), hostname |-> info.hostname,
              ip_address |-> info.ip_address,
              serial_number |-> info.serial_number,
              last_discovered |-> info.last_discovered,
              created_at |-> t, updated_at |-> t]}]

(***************************************************************************)
(* InterfaceRepository.create_or_update (repository.py 107-138) and        *)
(* VlanRepository.create_or_update (repository.py 342-363), applied to the *)
(* lists of one device (engine.py 287-297).                                *)
(***************************************************************************)
InterfaceByName(d, device_id, name) ==
    {row \in d.interfaces : row.device_id = device_id /\ row.name = name}

RECURSIVE UpsertInterfaces(_, _, _, _)
UpsertInterfaces(d, device_id, names, t) ==
    IF names = <<>> THEN d
    ELSE UpsertInterfaces(
            IF InterfaceByName(d, device_id, Head(names)) # {}
            THEN [d EXCEPT !.interfaces =
                    {IF row \in InterfaceByName(d, device_id, Head(names))
                     THEN [row EXCEPT !.updated_at = t]
                     ELSE row : row \in d.interfaces}]
            ELSE [d EXCEPT !.interfaces = @ \cup
                    {[id |-> NextId(d.interfaces), device_id |-> device_id,
                      name |-> Head(names), created_at |-> t,
                      updated_at |-> t]}],
            device_id, Tail(names), t)

VlanById(d, device_id, vlan_id) ==
    {row \in d.vlans : row.device_id = device_id /\ row.vlan_id = vlan_id}

RECURSIVE UpsertVlans(_, _, _, _)
UpsertVlans(d, device_id, vlan_ids, t) ==
    IF vlan_ids = <<>> THEN d
    ELSE UpsertVlans(
            IF VlanById(d, device_id, Head(vlan_ids)) # {}
            THEN [d EXCEPT !.vlans =
                    {IF row \in VlanById(d, device_id, Head(vlan_ids))
                     THEN [row EXCEPT !.updated_at = t]
                     ELSE row : row \in d.vlans}]
            ELSE [d EXCEPT !.vlans = @ \cup
                    {[id |-> NextId(d.vlans), device_id |-> device_id,
                      vlan_id |-> Head(vlan_ids), created_at |-> t,
                      updated_at |-> t]}],
            device_id, Tail(vlan_ids), t)

(***************************************************************************)
(* MacRepository.add_entry (repository.py 249-284), applied to the         *)
(* mac_table of one device (engine.py 300-309): an entry whose interface   *)
(* has no id in interface_id_map is skipped.                               *)
(***************************************************************************)
MacByKey(d, device_id, mac_data) ==
    {row \in d.mac_entries : /\ row.mac_address = mac_data.mac_address
                             /\ row.vlan_id = mac_data.vlan_id
                             /\ row.device_id = device_id}

add_entry(d, device_id, interface_id, mac_data, t) ==
    IF MacByKey(d, device_id, mac_data) # {}
    THEN [d EXCEPT !.mac_entries =
            {IF row \in MacByKey(d, device_id, mac_data)
             THEN [row EXCEPT !.last_seen = t, !.interface_id = interface_id,
                              !.type = mac_data.type]
             ELSE row : row \in d.mac_entries}]
    ELSE [d EXCEPT !.mac_entries = @ \cup
            {[id |-> NextId(d.mac_entries),
              mac_address |-> mac_data.mac_address,
              vlan_id |-> mac_data.vlan_id, device_id |-> device_id,
              interface_id |-> interface_id, type |-> mac_data.type,
              last_seen |-> t, created_at |-> t]}]

RECURSIVE AddMacEntries(_, _, _, _)
AddMacEntries(d, device_id, mac_table, t) ==
    IF mac_table = <<>> THEN d
    ELSE LET mac_data == Head(mac_table)
             found == InterfaceByName(d, device_id, mac_data.interface)
         IN  AddMacEntries(
                IF found # {}
                THEN add_entry(d, device_id, (CHOOSE row \in found : TRUE).id,
                               mac_data, t)
                ELSE d,
                device_id, Tail(mac_table), t)

\* Lines 301-308 rewrite each dictionary of device_info.mac_table in place:
\* device_id is set, interface is popped, interface_id is set when the
\* interface has an id.  (Line 296 sets device_id in each VLAN dictionary;
\* a VLAN is kept here as its vlan_id alone.)
StoredMacData(d, device_id, mac_data) ==
    LET found == InterfaceByName(d, device_id, mac_data.interface)
        rewritten == [mac_address |-> mac_data.mac_address,
                      vlan_id |-> mac_data.vlan_id, type |-> mac_data.type,
                      device_id |-> device_id]
    IN  IF found = {} THEN rewritten
        ELSE [mac_address |-> mac_data.mac_address,
              vlan_id |-> mac_data.vlan_id, type |-> mac_data.type,
              device_id |-> device_id,
              interface_id |-> (CHOOSE row \in found : TRUE).id]

\* The record of device_data after the try block of lines 281-311.
DeviceInfoAfterStore(d, info) ==
    [info EXCEPT !.mac_table =
        [i \in 1..Len(info.mac_table) |->
            StoredMacData(d, DeviceId(d, info.hostname), info.mac_table[i])]]

\* Lines 283-309: the rows of one device, when no write raises.
StoreDeviceRows(d, info, t) ==
    LET with_device == UpsertDevice(d, info, t)
        device_id == DeviceId(with_device, info.hostname)
    IN AddMacEntries(
          UpsertVlans(
             UpsertInterfaces(with_device, device_id, info.interfaces, t),
             device_id, info.vlans, t),
          device_id, info.mac_table, t)

\* The (hostname, name) keys lines 291-292 add to interface_id_map.
InterfaceKeys(info) ==
    {<<info.hostname, info.interfaces[i]>> : i \in 1..Len(info.interfaces)}

\* First loop of _store_discovery_data, lines 280-315: the try block of one
\* collected device.  On a session that awaits a rollback the query of
\* line 36 raises; a failing flush leaves the session in that state.
CommitDeviceRows ==
    /\ pc = "store_devices"
    /\ store_index <= Len(device_data)
    /\ LET info == device_data[store_index]
           raises == session_dirty \/ DeviceFlushFails(db, info)
       IN
        /\ db' = IF raises THEN db ELSE StoreDeviceRows(db, info, now)
        /\ device_data' =
              IF raises THEN device_data
              ELSE [device_data EXCEPT ![store_index] =
                      DeviceInfoAfterStore(StoreDeviceRows(db, info, now),
                                           info)]
        /\ device_id_map' = IF raises THEN device_id_map
                            ELSE device_id_map \cup {info.hostname}
        /\ interface_id_map' = IF raises THEN interface_id_map
                               ELSE interface_id_map \cup InterfaceKeys(info)
        /\ errors' = IF raises THEN Append(errors, StorageError(info.hostname))
                     ELSE errors
        /\ session_dirty' = raises
        /\ store_faults' = IF ~session_dirty /\ raises
                           THEN store_faults + 1 ELSE store_faults
    /\ store_index' = store_index + 1
    /\ now' = now + 1
    /\ UNCHANGED <<tool_vars, collector_vars, config_vars,
                   discovered_devices, discovery_queue, futures, submitted,
                   enqueued, outcome, pc,
                   discovery_session, run, strict_datetime, crawls,
                   previous_db>>

\* Line 317: the second loop starts over device_data.
StartConnections ==
    /\ pc = "store_devices"
    /\ store_index > Len(device_data)
    /\ pc' = "store_connections"
    /\ store_index' = 1
    /\ UNCHANGED <<tool_vars, collector_vars, config_vars,
                   crawl_vars, outcome, errors,
                   device_id_map, session_dirty, store_faults,
                   discovery_session, commit_vars>>

(***************************************************************************)
(* ConnectionRepository.create_or_update (repository.py 175-211).          *)
(***************************************************************************)
\* Lines 189-197: the row with the key of connection_data.
ConnectionByKey(d, data) ==
    {row \in d.connections :
        /\ row.source_device_id = data.source_device_id
        /\ row.source_interface_id = data.source_interface_id
        /\ row.dest_device_id = data.dest_device_id}

\* Mutant of UpdateConnection: the update also restamps discovered_at.
UpdateConnectionRestamped(row, data, t) ==
    [row EXCEPT !.last_seen = t, !.discovered_at = t,
                !.dest_interface_id = data.dest_interface_id,
                !.link_type = data.link_type]

\* Lines 201-204: the existing row after the update.
UpdateConnection(row, data, t) ==
    [row EXCEPT !.last_seen = t,
                !.dest_interface_id = data.dest_interface_id,
                !.link_type = data.link_type]

\* Lines 199-208.
UpsertConnection(d, data, t) ==
    IF ConnectionByKey(d, data) # {}
    THEN [d EXCEPT !.connections =
            {IF row \in ConnectionByKey(d, data)
             THEN UpdateConnection(row, data, t)
             ELSE row : row \in d.connections}]
    ELSE [d EXCEPT !.connections = @ \cup
            {[id |-> NextId(d.connections),
              source_device_id |-> data.source_device_id,
              source_interface_id |-> data.source_interface_id,
              dest_device_id |-> data.dest_device_id,
              dest_interface_id |-> data.dest_interface_id,
              link_type |-> data.link_type,
              discovered_at |-> t, last_seen |-> t]}]

\* Mutant of InterfaceId: the interface is looked up by its name alone.
InterfaceIdByName(d, hostname, name) ==
    IF \E row \in d.interfaces : row.name = name
    THEN (CHOOSE row \in d.interfaces : row.name = name).id
    ELSE NoId

\* interface_id_map.get((hostname, name)) of lines 329, 339: the id line 292
\* stored under that key, or None.
InterfaceId(d, hostname, name) ==
    IF <<hostname, name>> \in interface_id_map
    THEN (CHOOSE row \in InterfaceByName(d, DeviceId(d, hostname), name) :
             TRUE).id
    ELSE NoId

\* Lines 324-351: the connection_data of one neighbour; write = FALSE when
\* the loop continues without an upsert.
ConnectionData(d, hostname, neighbor) ==
    [write |-> /\ neighbor.remote_device \in device_id_map
               /\ InterfaceId(d, hostname, neighbor.local_interface) # NoId,
     source_device_id |-> DeviceId(d, hostname),
     source_interface_id |->
        InterfaceId(d, hostname, neighbor.local_interface),
     dest_device_id |->
        IF neighbor.remote_device \in device_id_map
        THEN DeviceId(d, neighbor.remote_device) ELSE NoId,
     dest_interface_id |->
        IF neighbor.remote_interface # NULL
        THEN InterfaceId(d, neighbor.remote_device, neighbor.remote_interface)
        ELSE NoId,
     link_type |-> neighbor.protocol]

\* Lines 322-361: the loop over the neighbours of one device.
RECURSIVE StoreConnections(_, _, _, _)
StoreConnections(d, hostname, neighbors, t) ==
    IF neighbors = <<>> THEN d
    ELSE StoreConnections(
            IF ConnectionData(d, hostname, Head(neighbors)).write
            THEN UpsertConnection(
                    d, ConnectionData(d, hostname, Head(neighbors)), t)
            ELSE d,
            hostname, Tail(neighbors), t)

\* Second loop, lines 317-361, for one device of device_data.  A device
\* without an id is skipped (line 319); on a session that awaits a rollback
\* every upsert raises and the exception is logged (lines 358-361).
CommitConnections ==
    /\ pc = "store_connections"
    /\ store_index <= Len(device_data)
    /\ LET info == device_data[store_index] IN
        db' = IF info.hostname \in device_id_map /\ ~session_dirty
              THEN StoreConnections(db, info.hostname, info.neighbors, now)
              ELSE db
    /\ store_index' = store_index + 1
    /\ now' = now + 1
    /\ UNCHANGED <<tool_vars, collector_vars, config_vars,
                   crawl_vars, outcome, pc,
                   errors, device_id_map, session_dirty, store_faults,
                   discovery_session, run, interface_id_map, strict_datetime,
                   crawls, previous_db>>

\* Line 363: _store_discovery_data returns.
FinishConnections ==
    /\ pc = "store_connections"
    /\ store_index > Len(device_data)
    /\ pc' = "update"
    /\ UNCHANGED <<tool_vars, collector_vars, config_vars,
                   crawl_vars, outcome, errors,
                   store_vars, discovery_session, commit_vars>>

\* Discovery is run again: a new engine, session and DiscoverySession row
\* (engine.py 52-68, 81-88) over the same database, with the device_data
\* its crawl collected.
Rediscover ==
    /\ pc \in {"done", "raised"}
    /\ run < MaxRuns
    /\ run' = run + 1
    /\ previous_db' = db
    /\ device_data' = Stamp(crawls.later, now)
    /\ now' = now + 1
    /\ pc' = "store_devices"
    /\ store_index' = 1
    /\ device_id_map' = {}
    /\ interface_id_map' = {}
    /\ session_dirty' = FALSE
    /\ store_faults' = 0
    /\ errors' = <<>>
    /\ discovery_session' = [NoSession EXCEPT !.status = "running"]
    /\ UNCHANGED <<tool_vars, collector_vars, config_vars, discovered_devices,
                   discovery_queue, futures, submitted, enqueued, outcome,
                   db, strict_datetime, crawls>>

\* The crawl of the first run has ended with some device_data.
StoreStart ==
    /\ net = NetCycle
    /\ seed_devices = <<"A">>
    /\ max_depth = MaxDepthLimit
    /\ max_workers = 1
    /\ discovered_devices = {}
    /\ discovery_queue = <<>>
    /\ futures = {}
    /\ submitted = <<>>
    /\ enqueued = <<>>
    /\ outcome = [h \in Hosts |-> "pending"]
    /\ crawls \in Rediscoveries
    /\ device_data = Stamp(crawls.first, 0)
    /\ strict_datetime \in BOOLEAN
    /\ run = 1
    /\ now = 1
    /\ db = EmptyDb
    /\ previous_db = EmptyDb
    /\ pc = "store_devices"
    /\ store_index = 1
    /\ device_id_map = {}
    /\ interface_id_map = {}
    /\ session_dirty = FALSE
    /\ store_faults = 0
    /\ errors = <<>>
    /\ discovery_session = [NoSession EXCEPT !.status = "running"]

StoreInit == CollectorIdle /\ ToolIdle /\ StoreStart

StoreNext ==
    \/ CommitDeviceRows
    \/ StartConnections
    \/ CommitConnections
    \/ FinishConnections
    \/ \E query_fault \in BOOLEAN : UpdateCompleted(query_fault)
    \/ HandleException
    \/ Rediscover

StoreSpec == StoreInit /\ [][StoreNext]_vars


(***************************************************************************)
(* validators.normalize_mac (src/src/utils/validators.py 7-32).  A string  *)
(* is a sequence of one-character strings.                                 *)
(***************************************************************************)

\* The characters re.sub removes (line 21): ".", ":", "-" and white space.
SeparatorsWithoutDash == {".", ":", " ", "\t"}

Separators == {".", ":", "-", " ", "\t"}

\* The string the characters are tested against (line 28).
HexDigits == {"0", "1", "2", "3", "4", "5", "6", "7", "8", "9",
              "a", "b", "c", "d", "e", "f"}

\* str.lower() on one character (line 21).
LowerChar(c) ==
    CASE c = "A" -> "a" [] c = "B" -> "b" [] c = "C" -> "c"
      [] c = "D" -> "d" [] c = "E" -> "e" [] c = "F" -> "f"
      [] c = "G" -> "g" [] OTHER -> c

\* The number of characters a MAC address holds (lines 24 and 32).
MacLength == 12

\* ":".join(mac[i : i + 2] for i in range(0, 12, 2)) (line 32), from the
\* i-th character on.
RECURSIVE JoinPairs(_, _)
JoinPairs(mac, i) ==
    IF i > MacLength THEN <<>>
    ELSE (IF i = 1 THEN <<>> ELSE <<":">>)
         \o SubSeq(mac, i, IF i + 1 <= Len(mac) THEN i + 1 ELSE Len(mac))
         \o JoinPairs(mac, i + 2)

normalize_mac(address) ==
    LET lowered == [i \in 1..Len(address) |-> LowerChar(address[i])]
        Kept(c) == c \notin Separators
        mac == SelectSeq(lowered, Kept)
    IN  IF Len(mac) # MacLength
        THEN MacResult("Invalid MAC address length", <<>>)
        ELSE IF \E i \in 1..Len(mac) : mac[i] \notin HexDigits
        THEN MacResult("Invalid MAC address characters", <<>>)
        ELSE MacResult(NULL, JoinPairs(mac, 1))

(***************************************************************************)
(* The arguments normalize_mac is called with: 12 hex digits in lower or   *)
(* upper case, spelled with colons, dashes, dots, blanks or no separator,  *)
(* and then left alone or damaged.  0050.7966.6801 is the example of       *)
(* parsers.py line 245.                                                    *)
(***************************************************************************)
MacDigits ==
    {<<"0", "0", "5", "0", "7", "9", "6", "6", "6", "8", "0", "1">>,
     <<"a", "b", "c", "d", "e", "f", "0", "1", "2", "3", "4", "5">>,
     <<"f", "f", "f", "f", "f", "f", "f", "f", "f", "f", "f", "f">>}

UpperChar(c) ==
    CASE c = "a" -> "A" [] c = "b" -> "B" [] c = "c" -> "C"
      [] c = "d" -> "D" [] c = "e" -> "E" [] c = "f" -> "F"
      [] OTHER -> c

Cases == {"lower", "upper", "mixed"}

Cased(digits, case) ==
    [i \in 1..Len(digits) |->
        IF case = "upper" \/ (case = "mixed" /\ i % 2 = 0)
        THEN UpperChar(digits[i]) ELSE digits[i]]

\* A spelling: the size of a group of digits and what stands between groups.
Spellings ==
    {[name |-> "colon", group |-> 2, separator |-> ":"],
     [name |-> "dash", group |-> 2, separator |-> "-"],
     [name |-> "dotted", group |-> 4, separator |-> "."],
     [name |-> "blank", group |-> 2, separator |-> " "],
     [name |-> "unseparated", group |-> 12, separator |-> ""]}

Spell(digits, spelling) ==
    LET block == spelling.group + 1
        groups == Len(digits) \div spelling.group
    IN  [i \in 1..(Len(digits) + groups - 1) |->
            IF i % block = 0 THEN spelling.separator
            ELSE digits[i - (i \div block)]]

Damages == {"none", "one_short", "one_long", "not_hex", "not_hex_upper",
            "trailing_letter", "trailing_blank", "empty"}

Damaged(text, damage) ==
    CASE damage = "none" -> text
      [] damage = "one_short" -> SubSeq(text, 1, Len(text) - 1)
      [] damage = "one_long" -> text \o <<"0">>
      [] damage = "not_hex" -> <<"g">> \o SubSeq(text, 2, Len(text))
      [] damage = "not_hex_upper" -> <<"G">> \o SubSeq(text, 2, Len(text))
      [] damage = "trailing_letter" -> text \o <<"g">>
      [] damage = "trailing_blank" -> text \o <<"\t">>
      [] damage = "empty" -> <<>>

MacInit ==
    /\ EngineIdle
    /\ CollectorIdle
    /\ CommitIdle
    /\ BuilderIdle
    /\ DeleteIdle
    /\ UpsertIdle
    /\ mac_case \in [digits : MacDigits, case : Cases, spelling : Spellings,
                     damage : Damages]
    /\ mac_address =
          Damaged(Spell(Cased(mac_case.digits, mac_case.case),
                        mac_case.spelling), mac_case.damage)
    /\ mac_pc = "input"
    /\ normalized = MacResult(NULL, <<>>)
    /\ renormalized = MacResult(NULL, <<>>)

\* normalize_mac(mac_address).
Normalize ==
    /\ mac_pc = "input"
    /\ normalized' = normalize_mac(mac_address)
    /\ mac_pc' = "normalized"
    /\ UNCHANGED <<engine_vars, collector_vars, commit_vars, builder_vars,
                   delete_vars, upsert_vars, mac_case, mac_address, renormalized>>

\* normalize_mac of the value the first call returned.
Renormalize ==
    /\ mac_pc = "normalized"
    /\ normalized.raised = NULL
    /\ renormalized' = normalize_mac(normalized.value)
    /\ mac_pc' = "renormalized"
    /\ UNCHANGED <<engine_vars, collector_vars, commit_vars, builder_vars,
                   delete_vars, upsert_vars, mac_case, mac_address, normalized>>

MacNext == Normalize \/ Renormalize

MacSpec == MacInit /\ [][MacNext]_vars

(***************************************************************************)
(* TopologyBuilder (src/src/core/topology/builder.py): build_graph reads   *)
(* the Device rows, adds one node per row, reads the Connection rows and   *)
(* adds one edge per row; find_path answers from the graph.  The graph is  *)
(* undirected: every caller takes the default of the directed argument.    *)
(* Of the node attributes id, ip, serial and interfaces_count are kept; an *)
(* edge is the set of its two endpoints.                                   *)
(***************************************************************************)

\* HostId: the primary key of the Device row of a host in a stored topology.
HostId(h) == CASE h = "A" -> 1 [] h = "B" -> 2 [] h = "C" -> 3 [] h = "D" -> 4

\* A store as commit passes leave it: a Device row and one Interface row for
\* each host, a Connection row for each (source, destination) link.
TopologyDb(hosts, links) ==
    [devices |->
        {[id |-> HostId(h), hostname |-> h, ip_address |-> IpOf[h],
          serial_number |-> NULL, last_discovered |-> 0, created_at |-> 0,
          updated_at |-> 0] : h \in hosts},
     interfaces |->
        {[id |-> HostId(h), device_id |-> HostId(h), name |-> "Gi0/1",
          created_at |-> 0, updated_at |-> 0] : h \in hosts},
     vlans |-> {},
     mac_entries |-> {},
     connections |->
        {[id |-> 4 * (HostId(l[1]) - 1) + HostId(l[2]),
          source_device_id |-> HostId(l[1]),
          source_interface_id |-> HostId(l[1]),
          dest_device_id |-> HostId(l[2]),
          dest_interface_id |-> NoId, link_type |-> "cdp",
          discovered_at |-> 0, last_seen |-> 0] : l \in links}]

\* The links a stored topology is made of.
StoredLinks ==
    {<<"A", "B">>, <<"B", "A">>, <<"B", "C">>, <<"C", "D">>, <<"D", "C">>,
     <<"D", "A">>, <<"C", "C">>}

StoredHosts == {{"A", "B"}, {"A", "B", "C"}, {"A", "B", "C", "D"}}

StoredTopologies ==
    {TopologyDb(hosts, {l \in links : l[1] \in hosts /\ l[2] \in hosts}) :
        hosts \in StoredHosts, links \in SUBSET StoredLinks}

\* A hostname no Device row carries.
UnknownHost == "E"

\* The rows of a table in the order of their ids (query(...).all()).
RECURSIVE RowsById(_)
RowsById(table) ==
    IF table = {} THEN <<>>
    ELSE LET first == CHOOSE row \in table :
                         \A other \in table : row.id <= other.id
         IN  <<first>> \o RowsById(table \ {first})

\* Line 50-59: the node of one Device row; len(device.interfaces) loads the
\* Interface rows of the device when the node is added.
NodeOf(d, device) ==
    [hostname |-> device.hostname, from_row |-> TRUE, id |-> device.id,
     ip |-> device.ip_address, serial |-> device.serial_number,
     interfaces_count |->
        Cardinality({row \in d.interfaces : row.device_id = device.id})]

\* The node add_edge creates for an endpoint the graph does not hold.
BareNode(hostname) ==
    [hostname |-> hostname, from_row |-> FALSE, id |-> NoId, ip |-> NULL,
     serial |-> NULL, interfaces_count |-> 0]

EmptyGraph == [nodes |-> {}, edges |-> {}]

NodeNames(g) == {node.hostname : node \in g.nodes}

\* Graph.add_node: the attributes of a node already there are updated.
add_node(g, node) ==
    [g EXCEPT !.nodes =
        {other \in @ : other.hostname # node.hostname} \cup {node}]

\* Graph.add_edge(u, v): endpoints the graph does not hold are added.
add_edge(g, u, v) ==
    [nodes |-> g.nodes \cup {BareNode(h) : h \in {u, v} \ NodeNames(g)},
     edges |-> g.edges \cup {{u, v}}]

\* conn.source_device.hostname, conn.dest_device.hostname (lines 68-69).
HostnameOfId(d, device_id) ==
    (CHOOSE row \in d.devices : row.id = device_id).hostname

\* Lines 64-85: the loop over the Connection rows.
RECURSIVE AddEdgesOf(_, _, _)
AddEdgesOf(g, d, connections) ==
    IF connections = <<>> THEN g
    ELSE LET conn == Head(connections)
         IN  AddEdgesOf(add_edge(g, HostnameOfId(d, conn.source_device_id),
                                 HostnameOfId(d, conn.dest_device_id)),
                        d, Tail(connections))

\* nx.shortest_path on an unweighted graph: breadth first from the source;
\* paths holds the paths of the current length, seen the nodes they reached.
RECURSIVE BreadthFirst(_, _, _, _)
BreadthFirst(g, target, paths, seen) ==
    IF \E p \in paths : p[Len(p)] = target
    THEN CHOOSE p \in paths : p[Len(p)] = target
    ELSE LET Onward(p) == {w \in NodeNames(g) \ seen :
                              {p[Len(p)], w} \in g.edges}
             longer == UNION {{Append(p, v) : v \in Onward(p)} : p \in paths}
         IN  IF longer = {} THEN NULL
             ELSE BreadthFirst(g, target, longer,
                               seen \cup {p[Len(p)] : p \in longer})

\* Mutant of find_path: only a direct link is a path.
find_path_one_hop(g, source, target) ==
    IF {source, target} \in g.edges THEN <<source, target>> ELSE NULL

\* Lines 186-191: the path, or None on NodeNotFound and NetworkXNoPath.
find_path(g, source, target) ==
    IF source \notin NodeNames(g) \/ target \notin NodeNames(g) THEN NULL
    ELSE BreadthFirst(g, target, {<<source>>}, {source})

\* A builder about to build the graph of a stored topology and to answer
\* one query.
PathInit ==
    /\ EngineIdle
    /\ CollectorIdle
    /\ ValidatorIdle
    /\ DeleteIdle
    /\ UpsertIdle
    /\ db \in StoredTopologies
    /\ now = 0
    /\ run = 1
    /\ strict_datetime = FALSE
    /\ interface_id_map = {}
    /\ crawls = [first |-> <<>>, later |-> <<>>]
    /\ previous_db = EmptyDb
    /\ builder_pc = "start"
    /\ devices_read = <<>>
    /\ graph = EmptyGraph
    /\ path_query \in [source : Hosts \cup {UnknownHost},
                       target : Hosts \cup {UnknownHost}]
    /\ path = NULL

\* build_graph, lines 42-48: a new graph; devices = device_repo.get_all().
ReadDevices ==
    /\ builder_pc = "start"
    /\ graph' = EmptyGraph
    /\ devices_read' = RowsById(db.devices)
    /\ builder_pc' = "nodes"
    /\ UNCHANGED <<engine_vars, collector_vars, commit_vars, validator_vars,
                   delete_vars, upsert_vars,
                   path_query, path>>

\* Lines 49-59: one turn of the loop over devices.
AddNode ==
    /\ builder_pc = "nodes"
    /\ devices_read # <<>>
    /\ graph' = add_node(graph, NodeOf(db, Head(devices_read)))
    /\ devices_read' = Tail(devices_read)
    /\ UNCHANGED <<engine_vars, collector_vars, commit_vars, validator_vars,
                   delete_vars, upsert_vars,
                   builder_pc, path_query, path>>

\* Lines 64-90: connections = connection_repo.get_all() and the loop over
\* them.
AddEdges ==
    /\ builder_pc = "nodes"
    /\ devices_read = <<>>
    /\ graph' = AddEdgesOf(graph, db, RowsById(db.connections))
    /\ builder_pc' = "built"
    /\ UNCHANGED <<engine_vars, collector_vars, commit_vars, validator_vars,
                   delete_vars, upsert_vars,
                   devices_read, path_query, path>>

\* find_path(source, target) on the graph just built (topology.py 86-89).
FindPath ==
    /\ builder_pc = "built"
    /\ path' = find_path(graph, path_query.source, path_query.target)
    /\ builder_pc' = "answered"
    /\ UNCHANGED <<engine_vars, collector_vars, commit_vars, validator_vars,
                   delete_vars, upsert_vars,
                   devices_read, graph, path_query>>

BuilderNext == ReadDevices \/ AddNode \/ AddEdges \/ FindPath

PathSpec == PathInit /\ [][BuilderNext]_vars

(***************************************************************************)
(* DeviceRepository.delete (repository.py 90-97) on a session of its own,  *)
(* between two runs of discovery.  session.delete(device) follows the      *)
(* relationships of schema.py 41-58 and 90-105:                            *)
(*   - interfaces, mac_entries and source_connections of the device, and   *)
(*     mac_entries and source_connections of its interfaces, carry         *)
(*     cascade="all, delete-orphan": their rows are deleted;               *)
(*   - dest_connections of the device and of its interfaces carry no       *)
(*     cascade: the foreign key of each such row that is not itself        *)
(*     deleted is set to NULL.  dest_device_id is NOT NULL (line 123), so  *)
(*     the flush raises IntegrityError when such a row exists;             *)
(*   - Vlan has no relationship to Device (schema.py 188-203): its rows    *)
(*     are not touched, and the DELETE of the device raises where the      *)
(*     backend enforces the foreign key vlans.device_id.                   *)
(* A flush that raises changes no row.                                     *)
(***************************************************************************)
InterfaceIdsOf(d, device_id) ==
    {row.id : row \in {i \in d.interfaces : i.device_id = device_id}}

\* The Connection rows the cascade deletes with the device.
CascadedConnections(d, device_id) ==
    {row \in d.connections :
        \/ row.source_device_id = device_id
        \/ row.source_interface_id \in InterfaceIdsOf(d, device_id)}

\* The Connection rows whose dest_device_id the flush sets to NULL.
InboundConnections(d, device_id) ==
    {row \in d.connections \ CascadedConnections(d, device_id) :
        row.dest_device_id = device_id}

DeleteRaises(d, device_id) ==
    \/ InboundConnections(d, device_id) # {}
    \/ foreign_keys /\ \E row \in d.vlans : row.device_id = device_id

\* The tables after a flush that does not raise.
DeleteRows(d, device_id) ==
    [devices |-> {row \in d.devices : row.id # device_id},
     interfaces |-> {row \in d.interfaces : row.device_id # device_id},
     vlans |-> d.vlans,
     mac_entries |->
        {row \in d.mac_entries :
            /\ row.device_id # device_id
            /\ row.interface_id \notin InterfaceIdsOf(d, device_id)},
     connections |->
        {IF row.dest_interface_id \in InterfaceIdsOf(d, device_id)
         THEN [row EXCEPT !.dest_interface_id = NoId] ELSE row :
            row \in d.connections \ CascadedConnections(d, device_id)}]

\* The ids delete is called with: those of the devices and one of no device.
DeviceIds == 1..4

DeleteInit ==
    /\ CollectorIdle
    /\ ValidatorIdle
    /\ BuilderIdle
    /\ UpsertIdle
    /\ StoreStart
    /\ foreign_keys \in BOOLEAN
    /\ deleted_id = NoId
    /\ delete_result = "none"

\* delete(device_id): False when there is no such device, True after the
\* commit, or the exception of the flush.
DeleteDevice(device_id) ==
    /\ pc \in {"done", "raised"}
    /\ delete_result = "none"
    /\ deleted_id' = device_id
    /\ IF \A row \in db.devices : row.id # device_id
       THEN delete_result' = "false" /\ UNCHANGED db
       ELSE IF DeleteRaises(db, device_id)
       THEN delete_result' = "raised" /\ UNCHANGED db
       ELSE delete_result' = "true" /\ db' = DeleteRows(db, device_id)
    /\ UNCHANGED <<engine_vars, collector_vars, validator_vars, builder_vars,
                   upsert_vars, now, run, strict_datetime, interface_id_map, crawls,
                   previous_db, foreign_keys>>

DeleteNext == StoreNext \/ \E device_id \in DeviceIds : DeleteDevice(device_id)

DeleteSpec == DeleteInit /\ [][DeleteNext]_vars

(***************************************************************************)
(* Upserts on one natural key through several store handles.  A handle is  *)
(* a Session of its own (engine.py 52-54, topology.py 15-19) with its own  *)
(* repositories.  Every create_or_update and add_entry (repository.py      *)
(* 25-51, 107-138, 175-211, 249-284, 342-363) is the same two steps: a     *)
(* query for the row with the key, then an update of the row that was      *)
(* found or the insert of a new row, and commit().  The tables differ in   *)
(* what the schema declares for the key: unique=True on devices.hostname   *)
(* (schema.py 30), a UniqueConstraint on interfaces, connections and vlans *)
(* (lines 107, 148-153, 202), and only indexes on mac_entries (179-182).   *)
(* key_rows holds the rows that carry the key.                             *)
(***************************************************************************)
UpsertKinds == {"device", "interface", "vlan", "connection", "mac_entry"}

HasUniqueKey(kind) == kind # "mac_entry"

Handles == 1..MaxHandles

UpsertInit ==
    /\ EngineIdle
    /\ CollectorIdle
    /\ CommitIdle
    /\ ValidatorIdle
    /\ BuilderIdle
    /\ DeleteIdle
    /\ upsert_kind \in UpsertKinds
    /\ key_rows \in {{}, {[id |-> 1, writers |-> {}]}}
    /\ handle_pc = [h \in Handles |-> "start"]
    /\ handle_found = [h \in Handles |-> NoId]

\* query(...).filter_by(key).first() on the handle's session.
QueryKey(h) ==
    /\ handle_pc[h] = "start"
    /\ handle_found' =
          [handle_found EXCEPT ![h] =
              IF key_rows = {} THEN NoId
              ELSE (CHOOSE row \in key_rows :
                       \A other \in key_rows : row.id <= other.id).id]
    /\ handle_pc' = [handle_pc EXCEPT ![h] = "queried"]
    /\ UNCHANGED <<engine_vars, collector_vars, commit_vars, validator_vars,
                   builder_vars, delete_vars, upsert_kind, key_rows>>

\* The update of the row found, or session.add of a new row; commit().  The
\* INSERT raises IntegrityError when the key is declared unique and another
\* handle has committed a row with it since the query.
CommitKey(h) ==
    /\ handle_pc[h] = "queried"
    /\ IF handle_found[h] # NoId
       THEN /\ key_rows' = {IF row.id = handle_found[h]
                            THEN [row EXCEPT !.writers = @ \cup {h}]
                            ELSE row : row \in key_rows}
            /\ handle_pc' = [handle_pc EXCEPT ![h] = "done"]
       ELSE IF HasUniqueKey(upsert_kind) /\ key_rows # {}
       THEN /\ handle_pc' = [handle_pc EXCEPT ![h] = "raised"]
            /\ UNCHANGED key_rows
       ELSE /\ key_rows' = key_rows \cup
                              {[id |-> NextId(key_rows), writers |-> {h}]}
            /\ handle_pc' = [handle_pc EXCEPT ![h] = "done"]
    /\ UNCHANGED <<engine_vars, collector_vars, commit_vars, validator_vars,
                   builder_vars, delete_vars, upsert_kind, handle_found>>

UpsertNext == \E h \in Handles : QueryKey(h) \/ CommitKey(h)

UpsertSpec == UpsertInit /\ [][UpsertNext]_vars

(***************************************************************************)
(* build_graph by a caller of the API (topology.py 22-27) while the engine *)
(* of another process runs its commit pass on the same database.  The      *)
(* builder's session is created by get_session with the default isolation *)
(* (schema.py 237, 254): each of its SELECTs (the devices, the interfaces  *)
(* of each device when len(device.interfaces) is evaluated, the            *)
(* connections) reads what has been committed when it is issued.           *)
(***************************************************************************)
RebuildInit ==
    /\ CollectorIdle
    /\ ValidatorIdle
    /\ DeleteIdle
    /\ UpsertIdle
    /\ StoreStart
    /\ builder_pc = "start"
    /\ devices_read = <<>>
    /\ graph = EmptyGraph
    /\ path_query = [source |-> "A", target |-> "B"]
    /\ path = NULL

RebuildNext == StoreNext \/ BuilderNext

RebuildSpec == RebuildInit /\ [][RebuildNext]_vars

(***************************************************************************)
(* Properties.                                                             *)
(***************************************************************************)
\* How often hostname h occurs in a log of puts or submits.
Count(log, h) == Cardinality({i \in 1..Len(log) : log[i].hostname = h})

\* The crawl loop has ended.
CrawlFinished == pc \notin {"start", "crawl"}

\* The collector of h gave a record.
Collected(h) == outcome[h] \in {"ok", "ok_no_hostname"}

\* C1: during one crawl each hostname is put on the frontier at most once.
C1_EnqueuedAtMostOnce ==
    \A h \in Hosts : Count(enqueued, h) <= 1

\* C2: during one crawl a collector is dispatched at most once for any
\* hostname, whether its collection succeeds or fails.
C2_DispatchedAtMostOnce ==
    \A h \in Hosts : Count(submitted, h) <= 1

\* A crawl over the cycle in which a hostname sat on the frontier twice, one
\* device failed, and every device of the cycle was dispatched.
C2_Witness ==
    /\ CrawlFinished
    /\ net = NetCycle
    /\ \E h \in Hosts : Count(enqueued, h) >= 2 /\ Count(submitted, h) = 1
    /\ \E h \in Hosts : outcome[h] \in ConnectErrors
    /\ \A h \in {"A", "B", "C"} : Count(submitted, h) = 1

\* C3: every neighbour put on the frontier has depth < max_depth, and no
\* collector is dispatched at a depth >= max_depth.
C3_DepthBelowMax ==
    /\ \A i \in 1..Len(enqueued) :
          ~enqueued[i].seed => enqueued[i].depth < max_depth
    /\ \A i \in 1..Len(discovery_queue) :
          discovery_queue[i].depth < max_depth
    /\ \A i \in 1..Len(submitted) : submitted[i].depth < max_depth
    /\ \A f \in futures : f.depth < max_depth

\* A device was collected at the last level, max_depth - 1 > 0, and reports
\* a switch the crawl has not seen: that neighbour was left off the frontier.
C3_Witness ==
    /\ CrawlFinished
    /\ \E i \in 1..Len(submitted) :
          /\ submitted[i].depth = max_depth - 1
          /\ submitted[i].depth > 0
          /\ Collected(submitted[i].hostname)
          /\ \E j \in 1..Len(net[submitted[i].hostname]) :
                LET neighbor == net[submitted[i].hostname][j] IN
                /\ neighbor.has_caps
                /\ IsSwitchOrRouter(neighbor.capabilities)
                /\ neighbor.remote_device \notin discovered_devices

\* Reference for C4: capabilities compared case-insensitively.
Lower(cap) ==
    CASE cap \in {"Switch", "SWITCH", "switch"} -> "switch"
      [] cap \in {"Router", "ROUTER", "router"} -> "router"
      [] OTHER -> cap

\* Reference for C4: collected device u reports v as a switch or router.
Reports(u, v) ==
    /\ Collected(u)
    /\ \E j \in 1..Len(net[u]) :
          /\ net[u][j].remote_device = v
          /\ net[u][j].has_caps
          /\ \E k \in 1..Len(net[u][j].capabilities) :
                Lower(net[u][j].capabilities[k]) \in {"switch", "router"}

\* Reference for C4: the hosts within k hops of a seed.
RECURSIVE Within(_)
Within(k) ==
    IF k = 0 THEN {seed_devices[i] : i \in 1..Len(seed_devices)}
    ELSE Within(k - 1) \cup
         {v \in Hosts : \E u \in Within(k - 1) : Reports(u, v)}

Unreachable == Cardinality(Hosts)

\* Reference for C4: BFS hop distance from the nearest seed.
Distance(h) ==
    IF h \in Within(Unreachable - 1)
    THEN CHOOSE k \in 0..(Unreachable - 1) :
            h \in Within(k) /\ \A j \in 0..(k - 1) : h \notin Within(j)
    ELSE Unreachable

\* C4: with max_depth = N every device at BFS distance <= N-1 from the
\* nearest seed is collected, at a depth equal to that distance.
C4_CollectedAtBfsDistance ==
    CrawlFinished =>
        \A h \in Hosts :
            Distance(h) <= max_depth - 1 =>
                \E i \in 1..Len(submitted) :
                    /\ submitted[i].hostname = h
                    /\ submitted[i].depth = Distance(h)

\* C5: the results map holds at most one record per device, and every
\* hostname that keys a record is a member of the visited set.
C5_ResultsAreVisited ==
    /\ \A i, j \in 1..Len(device_data) :
          device_data[i].hostname = device_data[j].hostname => i = j
    /\ \A i \in 1..Len(device_data) :
          device_data[i].hostname \in discovered_devices

\* C6: the number of collectors in flight is at most max_workers.
C6_InFlightBounded ==
    /\ Cardinality(futures) <= max_workers
    /\ Cardinality({f \in futures : ~f.done}) <= max_workers

\* The pool of two is full, both collectors are still running, and an item
\* waits on the frontier.
C6_Witness ==
    /\ max_workers = 2
    /\ Cardinality({f \in futures : ~f.done}) = 2
    /\ discovery_queue # <<>>


\* C7: assuming every collector call returns, the crawl loop terminates on
\* every network, cyclic ones included: the frontier drains, every worker
\* is idle, the commit pass is done and the final session update is reached.
C7_CrawlTerminates ==
    <>(/\ Terminated
       /\ discovery_queue = <<>>
       /\ futures = {}
       /\ store_index > Len(device_data))

\* start_discovery has ended on the cycle A - B - C after collecting all
\* three devices of it.
C7_Witness ==
    /\ Terminated
    /\ net = NetCycle
    /\ \A h \in {"A", "B", "C"} : Collected(h) /\ Count(submitted, h) = 1

\* The entries of errors that name hostname h.
ErrorsNaming(h) == {i \in 1..Len(errors) : errors[i].device = h}

\* The collector of h ended without a record.
Failed(h) == outcome[h] \in (ConnectErrors \cup {"no_version"})

C9_ErrorCarriesKind ==
    \A h \in Hosts :
        outcome[h] \in ConnectErrors =>
            \A i \in ErrorsNaming(h) : errors[i].error = outcome[h]

\* C10: start_discovery leaves the session row completed when it returns
\* and failed when it raises, with completed-at set in both cases; the row
\* is never left running.
C10_SessionEndsTerminal ==
    /\ pc = "done" =>
          /\ discovery_session.status = "completed"
          /\ discovery_session.completed_at = UTCNOW
    /\ pc = "raised" =>
          /\ discovery_session.status = "failed"
          /\ discovery_session.completed_at = UTCNOW

(***************************************************************************)
(* Properties of the collector (CollectorSpec).                            *)
(***************************************************************************)
\* The device granted the shell session.
SessionOpened == connect(command_fate["connect"])

\* collect_from_device has returned.
CollectorReturned == collector_pc = "returned"

\* The command was sent to the device.
WasIssued(command) == \E i \in 1..Len(issued) : issued[i] = command

\* An exception left collect_all after collect_device_info gave a record.
Escaped == CollectorReturned /\ device_info.present /\ returned = "none"

\* The commands collect_all is to send whatever the others do: all of the
\* catalogue but LLDP (conditional on CDP) and, when switched off, the MAC
\* table.
RequiredCommands ==
    (Commands \ {"show lldp neighbors detail"}) \
        (IF collect_mac_tables THEN {} ELSE {"show mac address-table"})

\* The members of a sequence.
Range(seq) == {seq[i] : i \in 1..Len(seq)}

\* C16: the failure of a single command of the catalogue does not stop the
\* remaining commands from being issued, and the data of every command that
\* succeeded is kept in the returned device record.
C16_CommandFailuresAreIsolated ==
    (CollectorReturned /\ SessionOpened /\ ~Escaped) =>
        /\ \A c \in RequiredCommands : WasIssued(c)
        /\ command_fate["show version"] = "data" =>
              /\ returned = "record"
              /\ device_info.hostname = CollectorHostname
        /\ command_fate["show interfaces status"] = "data" =>
              {x.name : x \in Range(device_info.interfaces)} =
                  {x.name : x \in Range(StatusData)}
        /\ \A c \in {"show cdp neighbors detail", "show lldp neighbors detail"} :
              WasIssued(c) =>
                  Range(NeighborsFrom(IF c = "show cdp neighbors detail"
                                      THEN "cdp" ELSE "lldp", command_fate[c]))
                      \subseteq Range(device_info.neighbors)
        /\ (WasIssued("show mac address-table")
                /\ command_fate["show mac address-table"] = "data") =>
              device_info.mac_table # <<>>
        /\ command_fate["show vlan brief"] = "data" =>
              device_info.vlans # <<>>

\* The device answers the command with output that holds entries.
Yields(command) == command_fate[command] \in {"data", "partial"}

\* Reference for C17: neither version, nor interfaces, nor neighbours of
\* the device yield anything.
CompletelyFailed ==
    /\ ~Yields("show version")
    /\ ~Yields("show interfaces status")
    /\ ~Yields("show cdp neighbors detail")
    /\ ~Yields("show lldp neighbors detail")

\* C17: for a connected device the collector returns null only when the
\* device is completely failed (version, interfaces and neighbours all
\* yield nothing); when one of the three yields data a record is returned.
C17_NullOnlyWhenCompletelyFailed ==
    (CollectorReturned /\ SessionOpened /\ ~Escaped) =>
        /\ returned = "none" => CompletelyFailed
        /\ ~CompletelyFailed => returned = "record"

\* The CDP attempt failed: the command raised, or an entry of its output
\* raised while the neighbours were built.
CdpFailed == command_fate["show cdp neighbors detail"] \in {"raises", "partial"}

\* The CDP attempt yielded no neighbour.
CdpYieldedNone ==
    command_fate["show cdp neighbors detail"] \in {"raises", "empty"}

\* collect_neighbors has returned.
NeighborsCollected ==
    /\ WasIssued("show cdp neighbors detail")
    /\ collector_pc \notin {"cdp", "lldp"}

\* C18: LLDP is issued if and only if the CDP attempt failed or yielded zero
\* neighbours, and always after the CDP attempt; every neighbour of the
\* record carries the protocol that produced it, and one record never
\* mixes both protocols.
C18_LldpIffCdpFailedOrEmpty ==
    /\ \A i, j \in 1..Len(issued) :
          (issued[i] = "show lldp neighbors detail"
              /\ issued[j] = "show cdp neighbors detail") => j < i
    /\ WasIssued("show lldp neighbors detail") =>
          WasIssued("show cdp neighbors detail")
    /\ NeighborsCollected =>
          /\ WasIssued("show lldp neighbors detail") <=>
                (CdpFailed \/ CdpYieldedNone)
          /\ \A x \in Range(device_info.neighbors) :
                x.protocol = IF WasIssued("show lldp neighbors detail")
                             THEN "lldp" ELSE "cdp"

\* C19: on every exit path of collect_from_device the shell session it
\* opened is closed by the time it returns, and a session is open only
\* while the collector is inside the with-block.
C19_SessionClosedOnReturn ==
    /\ channel_open => collector_pc \notin {"enter", "returned"}
    /\ CollectorReturned =>
          /\ ~channel_open
          /\ ~connected
          /\ disconnect_calls = IF SessionOpened THEN 1 ELSE 0

\* The session was opened, commands were sent, an exception left
\* collect_all, and collect_from_device returned None with the session
\* closed.
C19_Witness ==
    /\ CollectorReturned
    /\ SessionOpened
    /\ Escaped
    /\ Len(issued) >= 3
    /\ disconnect_calls = 1
    /\ ~channel_open

(***************************************************************************)
(* Properties of the commit pass and of the session update (StoreSpec).    *)
(***************************************************************************)
\* The sum of the lengths of a list field over device_data.
RECURSIVE TotalLen(_, _)
TotalLen(data, field) ==
    IF data = <<>> THEN 0
    ELSE Len(Head(data)[field]) + TotalLen(Tail(data), field)

\* C11: when a crawl completes, the final counts of the session record
\* (devices, interfaces, connections discovered) equal the numbers of
\* devices, interfaces and connections that crawl collected.
C11_SessionCountsMatch ==
    pc = "done" =>
        /\ discovery_session.devices_discovered = Len(device_data)
        /\ discovery_session.interfaces_discovered =
              TotalLen(device_data, "interfaces")
        /\ discovery_session.connections_discovered =
              TotalLen(device_data, "neighbors")

\* The rows of the store by identity: surrogate id and natural key.
RowSet(d) ==
    [devices |-> {<<row.id, row.hostname>> : row \in d.devices},
     interfaces |->
        {<<row.id, row.device_id, row.name>> : row \in d.interfaces},
     vlans |-> {<<row.id, row.device_id, row.vlan_id>> : row \in d.vlans},
     mac_entries |->
        {<<row.id, row.device_id, row.interface_id, row.vlan_id,
           row.mac_address>> : row \in d.mac_entries},
     connections |->
        {<<row.id, row.source_device_id, row.source_interface_id,
           row.dest_device_id>> : row \in d.connections}]

\* The later crawls collect the records the first crawl collected.
UnchangedNetwork == Range(crawls.first) = Range(crawls.later)

\* A run of discovery has ended.
RunEnded == pc \in {"done", "raised"}

\* C12: running discovery twice over an unchanged network leaves the same
\* device, interface, VLAN and connection rows after the second run as
\* after the first, and no last-discovered or last-seen value decreases.
C12_RediscoveryIsIdempotent ==
    (run = 2 /\ RunEnded /\ UnchangedNetwork) =>
        /\ RowSet(db) = RowSet(previous_db)
        /\ \A old \in previous_db.devices :
              \E new \in db.devices :
                  new.id = old.id /\ new.last_discovered >= old.last_discovered
        /\ \A old \in previous_db.connections :
              \E new \in db.connections :
                  new.id = old.id /\ new.last_seen >= old.last_seen

\* The connection_data the second loop builds for the neighbours of info.
Observed(d, info) ==
    {ConnectionData(d, info.hostname, info.neighbors[i]) :
        i \in 1..Len(info.neighbors)}

\* C13: an upsert of a connection whose key already exists leaves the
\* surrogate id and discovered-at of that row unchanged and refreshes
\* last-seen and the non-key attributes; no step changes the id, the key
\* or discovered-at of a connection row.
C13_ConnectionUpsertKeepsIdentity ==
    [][/\ \A old \in db.connections :
             \E new \in db'.connections :
                 /\ new.id = old.id
                 /\ new.source_device_id = old.source_device_id
                 /\ new.source_interface_id = old.source_interface_id
                 /\ new.dest_device_id = old.dest_device_id
                 /\ new.discovered_at = old.discovered_at
                 /\ new.last_seen >= old.last_seen
       /\ (/\ pc = "store_connections"
           /\ store_index' = store_index + 1
           /\ device_data[store_index].hostname \in device_id_map
           /\ ~session_dirty) =>
             \A data \in Observed(db, device_data[store_index]) :
                 (data.write /\ ConnectionByKey(db, data) # {}) =>
                     \A new \in ConnectionByKey(db', data) :
                         /\ new.last_seen = now
                         /\ \E seen \in Observed(db, device_data[store_index]) :
                               /\ seen.write
                               /\ ConnectionByKey(db, seen) =
                                     ConnectionByKey(db, data)
                               /\ new.link_type = seen.link_type
                               /\ new.dest_interface_id =
                                     seen.dest_interface_id
      ]_vars

\* A second run met a connection of the first run again, over another
\* protocol and with the remote port resolved: same id and discovered-at,
\* later last-seen, new link type and destination interface.
C13_Witness ==
    /\ run = 2
    /\ \E new \in db.connections :
          \E old \in previous_db.connections :
              /\ new.id = old.id
              /\ new.discovered_at = old.discovered_at
              /\ new.last_seen > old.last_seen
              /\ new.link_type # old.link_type
              /\ new.dest_interface_id # old.dest_interface_id

\* C14: every Connection row has a source interface that belongs to its
\* source device, and a destination interface that is null or belongs to
\* its destination device.
C14_ConnectionInterfacesBelong ==
    \A c \in db.connections :
        /\ \E i \in db.interfaces :
              i.id = c.source_interface_id /\ i.device_id = c.source_device_id
        /\ \/ c.dest_interface_id = NoId
           \/ \E i \in db.interfaces :
                 i.id = c.dest_interface_id /\ i.device_id = c.dest_device_id

\* A second commit pass has ended; the store holds a connection with a
\* resolved destination interface and one with a null destination
\* interface, between devices that name their ports alike.
C14_Witness ==
    /\ run = 2
    /\ pc = "update"
    /\ \E c \in db.connections : c.dest_interface_id # NoId
    /\ \E c \in db.connections : c.dest_interface_id = NoId
    /\ \E i, j \in db.interfaces : i.name = j.name /\ i.device_id # j.device_id

\* C15: a store write that fails for one device is recorded against that
\* device, and the rows of every device after it are still written: a
\* device whose own record the store accepts is stored whatever happened
\* to the devices before it.
C15_StoreFailureIsLocal ==
    [][(pc = "store_devices" /\ store_index' = store_index + 1) =>
          LET info == device_data[store_index] IN
          IF DeviceFlushFails(db, info)
          THEN errors' = Append(errors, StorageError(info.hostname))
          ELSE /\ errors' = errors
               /\ info.hostname \in device_id_map'
               /\ DeviceByHostname(db', info.hostname) # {}
               /\ \A i \in 1..Len(info.interfaces) :
                     InterfaceByName(db', DeviceId(db', info.hostname),
                                     info.interfaces[i]) # {}
      ]_vars

(***************************************************************************)
(* Properties of the crawl, continued (Spec).                              *)
(***************************************************************************)
\* Reference for C20: the capability list contains switch or router,
\* compared case-insensitively.
KeepByReference(capabilities) ==
    \E k \in 1..Len(capabilities) :
        Lower(capabilities[k]) \in {"switch", "router"}

\* C20: for every neighbour reported by a successfully collected device,
\* the capability test of the engine agrees with the case-insensitive
\* reference.
C20_CapabilityTestIgnoresCase ==
    \A f \in futures :
        (f.done /\ f.ok) =>
            \A j \in 1..Len(f.info.neighbors) :
                f.info.neighbors[j].has_caps =>
                    (IsSwitchOrRouter(f.info.neighbors[j].capabilities) <=>
                        KeepByReference(f.info.neighbors[j].capabilities))

(***************************************************************************)
(* Properties of normalize_mac (MacSpec).                                  *)
(***************************************************************************)
\* The hex digits of a string, in either case.
HexDigitCount(text) ==
    Cardinality({i \in 1..Len(text) :
                    text[i] \in HexDigits \cup {"A", "B", "C", "D", "E", "F"}})

\* ^[0-9a-f]{2}(:[0-9a-f]{2}){5}$
IsCanonicalMac(text) ==
    /\ Len(text) = 17
    /\ \A i \in 1..17 : IF i % 3 = 0 THEN text[i] = ":"
                        ELSE text[i] \in HexDigits

Accepted(result) == result.raised = NULL

\* C21: normalize_mac is idempotent; it maps the colon, dash, dotted and
\* unseparated spellings of the same 12 hex digits, in any case, to the same
\* lowercase colon-separated value; it raises on every argument that does
\* not hold exactly 12 hex digits; every value it returns matches
\* ^[0-9a-f]{2}(:[0-9a-f]{2}){5}$.
C21_NormalizeMacContract ==
    /\ mac_pc \in {"normalized", "renormalized"} =>
          /\ normalized = normalize_mac(mac_address)
          /\ HexDigitCount(mac_address) # 12 => ~Accepted(normalized)
          /\ Accepted(normalized) => IsCanonicalMac(normalized.value)
          /\ mac_case.damage = "none" =>
                /\ Accepted(normalized)
                /\ normalized.value =
                      Spell(mac_case.digits,
                            [name |-> "colon", group |-> 2, separator |-> ":"])
                /\ \A spelling \in Spellings : \A case \in Cases :
                      normalize_mac(Spell(Cased(mac_case.digits, case),
                                          spelling)) = normalized
    /\ mac_pc = "renormalized" => renormalized = normalized

\* A dotted upper-case address was normalised twice, and so was a dashed one;
\* this state is the dotted one.
C21_Witness ==
    /\ mac_pc = "renormalized"
    /\ mac_case.damage = "none"
    /\ mac_case.case = "upper"
    /\ mac_case.spelling.name = "dotted"
    /\ mac_case.digits[1] = "a"
    /\ Accepted(renormalized)

(***************************************************************************)
(* Properties of the topology builder (PathSpec).                          *)
(***************************************************************************)
\* Two stored devices with a Connection row between them, in either sense.
Linked(d, u, v) ==
    \E conn \in d.connections :
        {HostnameOfId(d, conn.source_device_id),
         HostnameOfId(d, conn.dest_device_id)} = {u, v}

\* The stored hostnames linked to one of reached, and so on.
RECURSIVE Component(_, _)
Component(d, reached) ==
    LET more == {row.hostname : row \in d.devices} \ reached
        next == {v \in more : \E u \in reached : Linked(d, u, v)}
    IN  IF next = {} THEN reached ELSE Component(d, reached \cup next)

SameComponent(d, a, b) ==
    /\ \E row \in d.devices : row.hostname = a
    /\ b \in Component(d, {a})

\* C22: for every pair of hostnames a, b and every stored topology,
\* find_path(a, b) returns a list whose first element is a, whose last
\* element is b and whose consecutive elements are linked in the undirected
\* graph, and it returns no path if and only if a and b are not in the same
\* connected component.
C22_FindPathIsAPath ==
    builder_pc = "answered" =>
        LET a == path_query.source
            b == path_query.target
        IN  IF path = NULL THEN ~SameComponent(db, a, b)
            ELSE /\ SameComponent(db, a, b)
                 /\ Len(path) >= 1
                 /\ path[1] = a
                 /\ path[Len(path)] = b
                 /\ \A i \in 1..(Len(path) - 1) :
                       Linked(db, path[i], path[i + 1])

\* A path over three links was returned.
C22_Witness ==
    /\ builder_pc = "answered"
    /\ path # NULL
    /\ Len(path) = 4
    /\ path[1] = "A"

(***************************************************************************)
(* Properties of DeviceRepository.delete (DeleteSpec).                     *)
(***************************************************************************)
\* The rows of d that belong to the device or point at it.
ReferencesTo(d, device_id) ==
    [interfaces |-> {row \in d.interfaces : row.device_id = device_id},
     vlans |-> {row \in d.vlans : row.device_id = device_id},
     mac_entries |-> {row \in d.mac_entries : row.device_id = device_id},
     connections |-> {row \in d.connections :
                         \/ row.source_device_id = device_id
                         \/ row.dest_device_id = device_id}]

NoReferences ==
    [interfaces |-> {}, vlans |-> {}, mac_entries |-> {}, connections |-> {}]

\* C23: deleting a device removes it with its interfaces, its MAC entries
\* and its outbound connections, and after the delete no interface, VLAN,
\* MAC-entry or connection row, inbound connections included, references the
\* deleted device.
C23_DeleteCascades ==
    [][\A device_id \in DeviceIds :
          (/\ delete_result = "none"
           /\ delete_result' # "none"
           /\ deleted_id' = device_id
           /\ \E row \in db.devices : row.id = device_id)
          => /\ \A row \in db'.devices : row.id # device_id
             /\ ReferencesTo(db', device_id) = NoReferences]_vars

(***************************************************************************)
(* Properties of the commit pass, continued (StoreSpec).                   *)
(***************************************************************************)
\* The main thread is inside _store_discovery_data.
InCommitPass(position) == position \in {"store_devices", "store_connections"}

\* C24: no store write of the commit pass happens while the frontier is
\* non-empty or a worker is still collecting, and the results map does not
\* change between the first and the last write of the commit pass.
C24_CommitSeesStableResults ==
    [][/\ db' # db => discovery_queue = <<>> /\ futures = {}
       /\ InCommitPass(pc) /\ InCommitPass(pc') => device_data' = device_data
      ]_vars

\* The commit pass of the first run has returned.
FirstCommitPassOver == run = 1 /\ pc \in {"update", "done", "raised"}

\* The hostnames of the records this crawl collected.
CollectedHostnames == {device_data[i].hostname : i \in 1..Len(device_data)}

\* The Device row of a hostname, as a set of at most one row.
StoredAs(hostname) == {row \in db.devices : row.hostname = hostname}

\* The Interface rows of a hostname that carry a name.
InterfaceRows(hostname, name) ==
    {row \in db.interfaces :
        /\ row.name = name
        /\ \E device \in StoredAs(hostname) : row.device_id = device.id}

\* The Connection rows that record the neighbour of info: from the local
\* device and interface to the device of the remote hostname, with the
\* remote interface when it resolves and null otherwise.
RowsRecording(info, neighbor) ==
    {row \in db.connections :
        /\ \E device \in StoredAs(info.hostname) :
              row.source_device_id = device.id
        /\ \E interface \in InterfaceRows(info.hostname,
                                          neighbor.local_interface) :
              row.source_interface_id = interface.id
        /\ \E device \in StoredAs(neighbor.remote_device) :
              row.dest_device_id = device.id
        /\ IF InterfaceRows(neighbor.remote_device,
                            neighbor.remote_interface) = {}
           THEN row.dest_interface_id = NoId
           ELSE \E interface \in InterfaceRows(neighbor.remote_device,
                                               neighbor.remote_interface) :
                   row.dest_interface_id = interface.id}

\* The local device was stored, the local interface is one of its
\* interfaces and the remote hostname was collected in this crawl.
MustBeRecorded(info, neighbor) ==
    /\ StoredAs(info.hostname) # {}
    /\ InterfaceRows(info.hostname, neighbor.local_interface) # {}
    /\ neighbor.remote_device \in CollectedHostnames

\* C25: the commit pass writes a connection for a (device, neighbour)
\* observation exactly when the local device was stored, the local interface
\* resolves to an interface of the local device and the remote hostname
\* names a device collected in this crawl; the destination interface is
\* null when the remote interface does not resolve; no other connection row
\* is written.
C25_ConnectionWrittenExactlyWhen ==
    FirstCommitPassOver =>
        /\ \A i \in 1..Len(device_data) :
              \A j \in 1..Len(device_data[i].neighbors) :
                 LET info == device_data[i]
                     neighbor == info.neighbors[j]
                 IN  MustBeRecorded(info, neighbor)
                        <=> RowsRecording(info, neighbor) # {}
        /\ \A row \in db.connections :
              \E i \in 1..Len(device_data) :
                 \E j \in 1..Len(device_data[i].neighbors) :
                    /\ MustBeRecorded(device_data[i],
                                      device_data[i].neighbors[j])
                    /\ row \in RowsRecording(device_data[i],
                                             device_data[i].neighbors[j])

(***************************************************************************)
(* Properties of concurrent upserts (UpsertSpec).                          *)
(***************************************************************************)
AllHandlesReturned == \A h \in Handles : handle_pc[h] \in {"done", "raised"}

\* C26: after any interleaving of concurrent upserts on the same natural
\* key issued through different store handles, the store holds exactly one
\* row for that key and neither upsert is lost or fails, for devices,
\* interfaces, VLANs, connections and MAC entries.
C26_ConcurrentUpsertsKeepOneRow ==
    AllHandlesReturned =>
        /\ Cardinality(key_rows) = 1
        /\ \A h \in Handles :
              /\ handle_pc[h] = "done"
              /\ \A row \in key_rows : h \in row.writers

(***************************************************************************)
(* Properties of the threads of a crawl (Spec).                            *)
(***************************************************************************)
\* The positions of the main thread from which device_data and errors are
\* read: the commit pass, update_session and the summary.
ReadsResults == pc \in {"store_devices", "update", "except", "done", "raised"}

\* No pool thread is running or holds a result that was not taken.
EveryWorkerFinished == futures = {}

\* C27: during a crawl the visited set and the frontier are touched by one
\* thread only, the main thread; no step of a worker thread changes visited,
\* frontier or results; and results and errors are not read until every
\* worker has finished.
C27_CrawlStateIsSerialised ==
    /\ [](ReadsResults => EveryWorkerFinished)
    /\ [][Worker =>
            UNCHANGED <<discovered_devices, discovery_queue, device_data>>]_vars
    /\ [][<<discovered_devices, discovery_queue>>'
             # <<discovered_devices, discovery_queue>>
          => MainThread /\ pc \in {"start", "crawl"}]_vars

\* Two workers ran at once, one failed and one succeeded, and the commit
\* pass is reading the results.
C27_Witness ==
    /\ pc = "store_devices"
    /\ max_workers >= 2
    /\ Len(submitted) >= 3
    /\ Len(device_data) >= 2
    /\ errors # <<>>

(***************************************************************************)
(* Properties of a rebuild during a commit pass (RebuildSpec).             *)
(***************************************************************************)
GraphBuilt == builder_pc \in {"built", "answered"}

\* The hostnames that are an endpoint of an edge of the graph.
Endpoints(g) == UNION g.edges

\* C28: in a graph built while a commit pass writes to the store, every
\* endpoint of every edge is a node that was added from a Device row read
\* in the same build and carries the attributes of that row.
C28_EdgeEndpointsAreDeviceNodes ==
    GraphBuilt =>
        \A hostname \in Endpoints(graph) :
            \E node \in graph.nodes :
                node.hostname = hostname /\ node.from_row

(***************************************************************************)
(* Properties of the neighbour loop (Spec).                                *)
(***************************************************************************)
\* The neighbour is one _process_discovered_device has to queue: it is
\* switch/router-capable, unseen and reported within the depth limit.
Eligible(neighbor, depth) ==
    /\ neighbor.has_caps
    /\ IsSwitchOrRouter(neighbor.capabilities)
    /\ ~SkipNeighbor(neighbor)
    /\ MayQueueNeighbors(depth)

\* The step processes the result of the future f.
Processes(f) ==
    /\ pc = "crawl"
    /\ f \in futures
    /\ f.done
    /\ f.ok
    /\ futures' = Pending(f)

ReportsNeighborWithoutCapabilities(f) ==
    \E j \in 1..Len(f.info.neighbors) : ~f.info.neighbors[j].has_caps

\* C29: when a successfully collected device reports a neighbour without a
\* capabilities list, the device stays in the results and each of its other
\* neighbours that is switch/router-capable, unseen and within the depth
\* limit is still put on the queue.
C29_OnlyTheBareNeighborIsDropped ==
    [][\A f \in futures :
          Processes(f) /\ ReportsNeighborWithoutCapabilities(f) =>
             /\ \E i \in 1..Len(device_data') :
                   device_data'[i].hostname = f.info.hostname
             /\ \A j \in 1..Len(f.info.neighbors) :
                   Eligible(f.info.neighbors[j], f.depth) =>
                      \E k \in (Len(enqueued) + 1)..Len(enqueued') :
                         /\ enqueued'[k].hostname =
                               f.info.neighbors[j].remote_device
                         /\ enqueued'[k].depth = f.depth + 1
      ]_vars

(***************************************************************************)
(* Properties of the connection upsert over several runs (StoreSpec).      *)
(***************************************************************************)
\* The Connection row of db' with the identity of the given row.
SameConnectionLater(row) == {later \in db'.connections : later.id = row.id}

\* C30: through upserts the destination interface of a connection never
\* returns to null once it was resolved; an upsert that cannot resolve it
\* keeps the id an earlier observation had stored.
C30_ResolvedDestinationStays ==
    [][\A row \in db.connections :
          row.dest_interface_id # NoId =>
             \A later \in SameConnectionLater(row) :
                later.dest_interface_id # NoId
      ]_vars

=============================================================================
